---- MODULE Spec2Model ----
(***************************************************************************)
(* Availability handlers of the booking API (src/api/availability.js, two  *)
(* revisions in one file).  A request names a range of local calendar      *)
(* days; the handler fetches the Bookings and Blackouts collections from   *)
(* the CalDAV server, parses every payload with ical.js and answers one    *)
(* record per day.                                                         *)
(*                                                                         *)
(* Time is counted in ticks (TicksPerDay per day) on the UTC axis.  The    *)
(* server's zone is a fixed offset of TZOffset ticks east of UTC (no DST), *)
(* so local midnight of calendar day d is the instant d*TicksPerDay -      *)
(* TZOffset.  Calendar days are numbered 0, 1, ...                         *)
(***************************************************************************)
EXTENDS Integers, Sequences, FiniteSets, TLC

\* ------------------------------------------------------------- bounds
MaxDay == 1
TicksPerDay == 2
TZOffset == 1
MaxSub == 2
MaxObjs == 2
MaxCalls == 3
MaxDeliveries == 2

Days == 0..MaxDay

\* ------------------------------------------------------------- time
\* new Date(y, m, d): local midnight of calendar day d, as an instant
LocalMidnight(d) == d * TicksPerDay - TZOffset

\* jsDate.getFullYear(), getMonth(), getDate(): the local calendar day of an instant
LocalDayOf(t) == (t + TZOffset) \div TicksPerDay

\* ------------------------------------------------------------- raw calendar data
\* A DTSTART/DTEND property as ical.js reads it: absent, a date-only value
\* (VALUE=DATE, day v) or a UTC date-time (instant v).
NoProp == [form |-> "none", v |-> 0]
DateVal(d) == [form |-> "date", v |-> d]
UtcVal(t) == [form |-> "utc", v |-> t]

Dates == 0..(MaxDay + 1)
Ticks == LocalMidnight(0)..LocalMidnight(MaxDay + 1)
PropVals == {NoProp} \cup {DateVal(d) : d \in Dates} \cup {UtcVal(t) : t \in Ticks}

\* SUMMARY texts
PlainLabel == "609 Booking"
Short3Label == "Recording Session (3h)"
Long4Label == "recording session (4h)"
Long12Label == "RECORDING  SESSION(12 h)"
NoSpaceLabel == "RecordingSession (2h)"
CoreLabels == {PlainLabel, Short3Label}
Labels == {PlainLabel, Short3Label, Long4Label, Long12Label, NoSpaceLabel}

\* The characters of each SUMMARY text (TLA+ strings cannot be indexed)
Chars(l) ==
  CASE l = PlainLabel -> <<"6","0","9"," ","B","o","o","k","i","n","g">>
    [] l = Short3Label -> <<"R","e","c","o","r","d","i","n","g"," ","S","e","s","s","i","o","n"," ","(","3","h",")">>
    [] l = Long4Label -> <<"r","e","c","o","r","d","i","n","g"," ","s","e","s","s","i","o","n"," ","(","4","h",")">>
    [] l = Long12Label -> <<"R","E","C","O","R","D","I","N","G"," "," ","S","E","S","S","I","O","N","(","1","2"," ","h",")">>
    [] l = NoSpaceLabel -> <<"R","e","c","o","r","d","i","n","g","S","e","s","s","i","o","n"," ","(","2","h",")">>
    [] OTHER -> <<>>

\* A VEVENT block: its DTSTART, DTEND and SUMMARY
RawEvent(s, e, l) == [dtstart |-> s, dtend |-> e, summary |-> l]
AllDay(d, n, l) == RawEvent(DateVal(d), DateVal(d + n), l)

\* A payload value: undefined, the empty string, or a text.  A text either
\* parses as a VCALENDAR holding the VEVENT blocks in vevents, or is
\* something ICAL.parse throws on.
Undefined == [kind |-> "undefined", wellFormed |-> FALSE, vevents |-> <<>>]
EmptyStr == [kind |-> "empty", wellFormed |-> FALSE, vevents |-> <<>>]
Garbage == [kind |-> "text", wellFormed |-> FALSE, vevents |-> <<>>]
IcsText(evs) == [kind |-> "text", wellFormed |-> TRUE, vevents |-> evs]
\* a text ICAL.parse rejects although these BEGIN:VEVENT blocks can be read in it
BrokenIcs(evs) == [kind |-> "text", wellFormed |-> FALSE, vevents |-> evs]

\* JavaScript truthiness of a payload value
Truthy(p) == p.kind = "text"

\* A calendar object as tsdav returns it
DavObj(d, c, i) == [data |-> d, calendarData |-> c, iCalString |-> i]
ObjData(p) == DavObj(p, Undefined, Undefined)

\* ------------------------------------------------------------- helpers
\* overlaps(s1, e1, s2, e2)
overlapsInclusive(s1, e1, s2, e2) == s1 <= e2 /\ e1 >= s2
overlaps(s1, e1, s2, e2) == s1 < e2 /\ e1 > s2

\* getICSFromObj(obj): obj?.data || obj?.calendarData || obj?.iCalString || ''
getICSFromObj(obj) ==
  IF Truthy(obj.data) THEN obj.data
  ELSE IF Truthy(obj.calendarData) THEN obj.calendarData
  ELSE IF Truthy(obj.iCalString) THEN obj.iCalString
  ELSE EmptyStr

\* extractEventsFromICS(ics): ICAL.parse throws on a malformed text and the
\* catch answers []; otherwise the VEVENT subcomponents in order.
\* threw tells whether an exception leaves the function.
extractEventsNoCatch(ics) ==
  IF ics.wellFormed THEN [threw |-> FALSE, events |-> ics.vevents]
  ELSE [threw |-> TRUE, events |-> <<>>]
extractEventsFromICS(ics) ==
  IF ics.wellFormed THEN [threw |-> FALSE, events |-> ics.vevents]
  ELSE [threw |-> FALSE, events |-> <<>>]

\* ICAL.Time.toJSDate(): a date-only value is local midnight of its day, a
\* UTC date-time is its instant
toJSDateUTC(p) == IF p.form = "date" THEN p.v * TicksPerDay ELSE p.v
toJSDate(p) == IF p.form = "date" THEN LocalMidnight(p.v) ELSE p.v

\* ev.startDate: the DTSTART property, null when the block has none.
\* ev.startDate?.toJSDate?.() is then undefined (def = FALSE).
startOf(ev) ==
  IF ev.dtstart.form = "none" THEN [def |-> FALSE, threw |-> FALSE, t |-> 0]
  ELSE [def |-> TRUE, threw |-> FALSE, t |-> toJSDate(ev.dtstart)]

\* ev.endDate (ical.js getter): the DTEND property when present; otherwise a
\* clone of startDate, one day later when that is date-only.  With neither
\* DTEND nor DTSTART the clone of null throws a TypeError.
endOf(ev) ==
  IF ev.dtend.form # "none" THEN [def |-> TRUE, threw |-> FALSE, t |-> toJSDate(ev.dtend)]
  ELSE IF ev.dtstart.form = "none" THEN [def |-> FALSE, threw |-> TRUE, t |-> 0]
  ELSE IF ev.dtstart.form = "date"
    THEN [def |-> TRUE, threw |-> FALSE, t |-> LocalMidnight(ev.dtstart.v + 1)]
  ELSE [def |-> TRUE, threw |-> FALSE, t |-> toJSDate(ev.dtstart)]

\* ------------------------------------------------------------- SUMMARY pattern
\* /Recording\s+Session\s*\((\d+)\s*h\)/i
Lower(c) ==
  CASE c = "R" -> "r" [] c = "E" -> "e" [] c = "C" -> "c" [] c = "O" -> "o"
    [] c = "D" -> "d" [] c = "I" -> "i" [] c = "N" -> "n" [] c = "G" -> "g"
    [] c = "S" -> "s" [] c = "H" -> "h" [] c = "B" -> "b" [] c = "K" -> "k"
    [] OTHER -> c
Digits == {"0","1","2","3","4","5","6","7","8","9"}
DigitVal(c) ==
  CASE c = "0" -> 0 [] c = "1" -> 1 [] c = "2" -> 2 [] c = "3" -> 3 [] c = "4" -> 4
    [] c = "5" -> 5 [] c = "6" -> 6 [] c = "7" -> 7 [] c = "8" -> 8 [] c = "9" -> 9
    [] OTHER -> 0

\* the literal word w matches cs at position i, ignoring case
WordAt(cs, i, w) ==
  /\ i + Len(w) - 1 <= Len(cs)
  /\ \A k \in 1..Len(w) : Lower(cs[i + k - 1]) = w[k]

\* first position at or after i that is not in class
RECURSIVE SkipClass(_, _, _)
SkipClass(cs, i, class) ==
  IF i <= Len(cs) /\ cs[i] \in class THEN SkipClass(cs, i + 1, class) ELSE i

\* the pattern tried at position i: [ok, from, to] with cs[from..to] the digits
MatchAt(cs, i) ==
  LET none == [ok |-> FALSE, from |-> 0, to |-> 0]
      a == i + 9
      b == SkipClass(cs, a, {" "})
      c == b + 7
      d == SkipClass(cs, c, {" "})
      e == SkipClass(cs, d + 1, Digits)
      f == SkipClass(cs, e, {" "})
  IN IF ~WordAt(cs, i, <<"r","e","c","o","r","d","i","n","g">>) THEN none
     ELSE IF b = a THEN none
     ELSE IF ~WordAt(cs, b, <<"s","e","s","s","i","o","n">>) THEN none
     ELSE IF ~WordAt(cs, d, <<"(">>) THEN none
     ELSE IF e = d + 1 THEN none
     ELSE IF ~WordAt(cs, f, <<"h", ")">>) THEN none
     ELSE [ok |-> TRUE, from |-> d + 1, to |-> e - 1]

\* summary.match(...): the leftmost match
RECURSIVE MatchFrom(_, _)
MatchFrom(cs, i) ==
  IF i > Len(cs) THEN [ok |-> FALSE, from |-> 0, to |-> 0]
  ELSE IF MatchAt(cs, i).ok THEN MatchAt(cs, i)
  ELSE MatchFrom(cs, i + 1)

\* parseInt(m[1], 10)
RECURSIVE parseInt(_, _, _)
parseInt(cs, from, to) ==
  IF from > to THEN 0 ELSE parseInt(cs, from, to - 1) * 10 + DigitVal(cs[to])

ShortHours == 4

\* the SUMMARY announces a recording session under four hours
isShortSummaryLE(l) ==
  LET m == MatchFrom(Chars(l), 1)
  IN m.ok /\ parseInt(Chars(l), m.from, m.to) <= ShortHours
isShortSummary(l) ==
  LET m == MatchFrom(Chars(l), 1)
  IN m.ok /\ parseInt(Chars(l), m.from, m.to) < ShortHours
\* second revision: if (!obj?.data) continue; ... extractEventsFromICS(obj.data)
getData2(obj) == IF Truthy(obj.data) THEN obj.data ELSE EmptyStr

\* ------------------------------------------------------------- per-day scans
\* The instants of one event as the loop body reads them, from the values of
\* the two getters.  strict: a missing start is dereferenced and throws.
readTimes(strict, s, e) ==
  [threw |-> (strict /\ ~s.def) \/ e.threw, usable |-> s.def /\ e.def, s |-> s.t, e |-> e.t]

\* First revision: s = ev.startDate?.toJSDate?.(); e = ev.endDate?.toJSDate?.();
\* if (!s || !e) continue.  The endDate getter is still evaluated when s is
\* undefined.
eventTimes(ev) == readTimes(FALSE, startOf(ev), endOf(ev))

\* Second revision: s = ev.startDate.toJSDate(); e = ev.endDate.toJSDate();
\* a block without DTSTART makes the first call throw a TypeError.
eventTimes2(ev) == readTimes(TRUE, startOf(ev), endOf(ev))

timesOf(rev, ev) == IF rev = 1 THEN eventTimes(ev) ELSE eventTimes2(ev)

\* the text the loop body parses: getICSFromObj(obj) or obj.data
icsOf(rev, obj) == IF rev = 1 THEN getICSFromObj(obj) ELSE getData2(obj)

\* one pass of the loop over events: if (overlaps(s, e, dayStart, dayEnd)) { count++; break; }
overlapStep(t, dayStart, dayEnd, rest) ==
  IF t.threw THEN "throw"
  ELSE IF t.usable /\ overlaps(t.s, t.e, dayStart, dayEnd) THEN "hit"
  ELSE rest

\* for (const ev of events) { ... }
\* "hit": an event overlapped (the rest is not read), "miss": none did,
\* "throw": an exception left the loop
RECURSIVE firstOverlap(_, _, _, _, _)
firstOverlap(rev, events, i, dayStart, dayEnd) ==
  IF i > Len(events) THEN "miss"
  ELSE overlapStep(timesOf(rev, events[i]), dayStart, dayEnd,
                   firstOverlap(rev, events, i + 1, dayStart, dayEnd))

\* if (!ics) continue; const events = extractEventsFromICS(ics); for (...)
icsOverlap(rev, ics, x, dayStart, dayEnd) ==
  IF ~Truthy(ics) THEN "miss"
  ELSE IF x.threw THEN "throw"
  ELSE firstOverlap(rev, x.events, 1, dayStart, dayEnd)

\* the body of the loop over objects, for one object
objectOverlap(rev, obj, dayStart, dayEnd) ==
  icsOverlap(rev, icsOf(rev, obj), extractEventsFromICS(icsOf(rev, obj)), dayStart, dayEnd)

\* counts every overlapping VEVENT of every object (no break)
RECURSIVE overlapCount(_, _, _, _, _)
overlapCount(rev, events, i, dayStart, dayEnd) ==
  IF i > Len(events) THEN 0
  ELSE overlapCount(rev, events, i + 1, dayStart, dayEnd)
         + (IF overlapStep(timesOf(rev, events[i]), dayStart, dayEnd, "miss") = "hit"
            THEN 1 ELSE 0)
\* the count after one more object, or the exception that left the loop
addCount(r, n, rest) ==
  IF r = "throw" THEN [threw |-> TRUE, count |-> 0]
  ELSE [threw |-> rest.threw, count |-> IF rest.threw THEN 0 ELSE rest.count + n]
RECURSIVE countFromNoBreak(_, _, _, _, _)
countFromNoBreak(rev, objects, i, dayStart, dayEnd) ==
  IF i > Len(objects) THEN [threw |-> FALSE, count |-> 0]
  ELSE addCount(objectOverlap(rev, objects[i], dayStart, dayEnd),
                 overlapCount(rev, extractEventsFromICS(icsOf(rev, objects[i])).events, 1,
                              dayStart, dayEnd),
                 countFromNoBreak(rev, objects, i + 1, dayStart, dayEnd))

\* count of one object: 1 when an event of it overlapped, whatever their number
hitCount(r) == IF r = "hit" THEN 1 ELSE 0
addObject(r, rest) == addCount(r, hitCount(r), rest)

\* for (const obj of objects) { ... } return count
RECURSIVE countFrom(_, _, _, _, _)
countFrom(rev, objects, i, dayStart, dayEnd) ==
  IF i > Len(objects) THEN [threw |-> FALSE, count |-> 0]
  ELSE addObject(objectOverlap(rev, objects[i], dayStart, dayEnd),
                 countFrom(rev, objects, i + 1, dayStart, dayEnd))

\* dayStart = new Date(y, m, d) of jsDate; dayEnd = dayStart.setDate(+1)
dayStartOf(jsDate) == LocalMidnight(LocalDayOf(jsDate))
dayEndOf(jsDate) == LocalMidnight(LocalDayOf(jsDate) + 1)

countEventsOnDate(objects, jsDate) ==
  countFrom(1, objects, 1, dayStartOf(jsDate), dayEndOf(jsDate))
countEventsOnDate2(objects, jsDate) ==
  countFrom(2, objects, 1, dayStartOf(jsDate), dayEndOf(jsDate))

\* one pass of the loop over events:
\* if (!overlaps(...)) continue; if (m && hours < 4) return true;
shortStep(t, summary, dayStart, dayEnd, rest) ==
  IF t.threw THEN "throw"
  ELSE IF t.usable /\ overlaps(t.s, t.e, dayStart, dayEnd) /\ isShortSummary(summary)
    THEN "true"
  ELSE rest

RECURSIVE shortInEvents(_, _, _, _, _)
shortInEvents(rev, events, i, dayStart, dayEnd) ==
  IF i > Len(events) THEN "false"
  ELSE shortStep(timesOf(rev, events[i]), events[i].summary, dayStart, dayEnd,
                 shortInEvents(rev, events, i + 1, dayStart, dayEnd))

icsShort(rev, ics, x, dayStart, dayEnd) ==
  IF ~Truthy(ics) THEN "false"
  ELSE IF x.threw THEN "throw"
  ELSE shortInEvents(rev, x.events, 1, dayStart, dayEnd)

objectShort(rev, obj, dayStart, dayEnd) ==
  icsShort(rev, icsOf(rev, obj), extractEventsFromICS(icsOf(rev, obj)), dayStart, dayEnd)

\* the object returned true or threw, or the loop goes on
orNext(r, rest) == IF r = "false" THEN rest ELSE r

\* for (const obj of objects) { ... } return false
RECURSIVE shortFrom(_, _, _, _, _)
shortFrom(rev, objects, i, dayStart, dayEnd) ==
  IF i > Len(objects) THEN "false"
  ELSE orNext(objectShort(rev, objects[i], dayStart, dayEnd),
              shortFrom(rev, objects, i + 1, dayStart, dayEnd))

hasShortRecording(objects, jsDate) ==
  shortFrom(1, objects, 1, dayStartOf(jsDate), dayEndOf(jsDate))
hasShortRecording2(objects, jsDate) ==
  shortFrom(2, objects, 1, dayStartOf(jsDate), dayEndOf(jsDate))

\* ------------------------------------------------------------- the day loop
\* const available = !blackout && bookedCount <= 1 && !shortRecording
availableRuleLE2(blackout, bookedCount, shortRecording) ==
  ~blackout /\ bookedCount <= 2 /\ ~shortRecording
availableRule(blackout, bookedCount, shortRecording) ==
  ~blackout /\ bookedCount <= 1 /\ ~shortRecording

\* const blackout = countEventsOnDate(blackoutObjs, jsDate) > 0
isBlackoutGT1(n) == n > 1
isBlackoutOnlyOne(n) == n = 1
isBlackout(n) == n > 0

\* days.push({ date, available, blackout, bookedCount, shortRecording })
dayResult(d, bc, xc, sr) ==
  [threw |-> bc.threw \/ xc.threw \/ sr = "throw",
   rec |-> [date |-> d,
            available |-> availableRule(isBlackout(xc.count), bc.count, sr = "true"),
            blackout |-> isBlackout(xc.count),
            bookedCount |-> bc.count,
            shortRecording |-> sr = "true"]]

countOn(rev, objects, jsDate) ==
  IF rev = 1 THEN countEventsOnDate(objects, jsDate) ELSE countEventsOnDate2(objects, jsDate)
shortOn(rev, objects, jsDate) ==
  IF rev = 1 THEN hasShortRecording(objects, jsDate) ELSE hasShortRecording2(objects, jsDate)

\* one pass of the loop body for dayjs day d: [threw, rec]
dayRecordShortAnywhere(rev, bookingObjs, blackoutObjs, d) ==
  dayResult(d, countOn(rev, bookingObjs, LocalMidnight(d)),
            countOn(rev, blackoutObjs, LocalMidnight(d)),
            shortOn(rev, bookingObjs \o blackoutObjs, LocalMidnight(d)))
dayRecord(rev, bookingObjs, blackoutObjs, d) ==
  dayResult(d, countOn(rev, bookingObjs, LocalMidnight(d)),
            countOn(rev, blackoutObjs, LocalMidnight(d)),
            shortOn(rev, bookingObjs, LocalMidnight(d)))

\* the list so far, or the exception that left the loop
pushDay(r, rest) ==
  IF r.threw \/ rest.threw THEN [threw |-> TRUE, days |-> <<>>]
  ELSE [threw |-> FALSE, days |-> <<r.rec>> \o rest.days]

\* for (let d = startD; d.isBefore(endExclusive); d = d.add(1, 'day'))
RECURSIVE daysLoopEndInclusive(_, _, _, _, _)
daysLoopEndInclusive(rev, bookingObjs, blackoutObjs, d, endExclusive) ==
  IF ~(LocalMidnight(d) <= LocalMidnight(endExclusive)) THEN [threw |-> FALSE, days |-> <<>>]
  ELSE pushDay(dayRecord(rev, bookingObjs, blackoutObjs, d),
               daysLoopEndInclusive(rev, bookingObjs, blackoutObjs, d + 1, endExclusive))
RECURSIVE daysLoop(_, _, _, _, _)
daysLoop(rev, bookingObjs, blackoutObjs, d, endExclusive) ==
  IF ~(LocalMidnight(d) < LocalMidnight(endExclusive)) THEN [threw |-> FALSE, days |-> <<>>]
  ELSE pushDay(dayRecord(rev, bookingObjs, blackoutObjs, d),
               daysLoop(rev, bookingObjs, blackoutObjs, d + 1, endExclusive))
\* ------------------------------------------------------------- requests
\* A query parameter: absent, a text dayjs cannot parse, or a date
QMissing == [k |-> "missing", d |-> 0]
QInvalid == [k |-> "invalid", d |-> 0]
QDate(d) == [k |-> "date", d |-> d]
QueryVals == {QMissing, QInvalid} \cup {QDate(d) : d \in Days}

Revisions == {1, 2}
Methods == {"GET", "OPTIONS"}

NoReq == [rev |-> 1, method |-> "GET", start |-> QMissing, end |-> QMissing]
NoResp == [status |-> 0, error |-> "", days |-> <<>>]
Answer(status, error, days) == [status |-> status, error |-> error, days |-> days]

\* calendar display names the server may answer; findCal compares lower-cased
BOOKINGS_CAL_NAME == "Bookings"
BLACKOUTS_CAL_NAME == "Blackouts"
toLowerCase(n) ==
  CASE n = "Bookings" -> "bookings" [] n = "BOOKINGS" -> "bookings"
    [] n = "Blackouts" -> "blackouts" [] n = "blackouts" -> "blackouts"
    [] OTHER -> n
CalendarLists ==
  {{}, {"Home"}, {"Bookings", "Home"}, {"blackouts"}, {"BOOKINGS", "blackouts"},
   {"Bookings", "Blackouts", "Home"}}
findCal(calendars, name) ==
  \E c \in calendars : toLowerCase(c) = toLowerCase(name)

\* ------------------------------------------------------------- fetched collections
\* What the two fetchCalendarObjects calls may resolve to.  Three families:
\* one object holding one VEVENT with every combination of DTSTART, DTEND and
\* SUMMARY; one object holding several VEVENTs; several objects, each with
\* one VEVENT or with an unusable payload.
RawEvents == {RawEvent(s, e, l) : s \in PropVals, e \in PropVals, l \in Labels}

SmallEvents ==
  {AllDay(d, 1, l) : d \in Days, l \in CoreLabels}
    \cup {RawEvent(NoProp, DateVal(1), PlainLabel), RawEvent(NoProp, NoProp, PlainLabel)}

RECURSIVE SeqsUpTo(_, _)
SeqsUpTo(S, n) ==
  IF n = 0 THEN {<<>>}
  ELSE LET shorter == SeqsUpTo(S, n - 1)
       IN shorter \cup {Append(q, x) : q \in {r \in shorter : Len(r) = n - 1}, x \in S}

UnusableObjs ==
  {ObjData(Undefined), ObjData(EmptyStr), ObjData(Garbage)}
OtherKeyObjs ==
  {DavObj(Undefined, IcsText(<<AllDay(0, 1, PlainLabel)>>), Undefined),
   DavObj(EmptyStr, Undefined, IcsText(<<AllDay(0, 1, PlainLabel)>>))}

SingleEventLists == {<<ObjData(IcsText(<<ev>>))>> : ev \in RawEvents}
MultiEventLists ==
  {<<ObjData(IcsText(evs))>> : evs \in SeqsUpTo(SmallEvents, MaxSub) \ {<<>>}}
SmallObjs ==
  {ObjData(IcsText(<<ev>>)) : ev \in SmallEvents} \cup UnusableObjs \cup OtherKeyObjs
MultiObjLists == SeqsUpTo(SmallObjs, MaxObjs)
FewBlackouts ==
  {<<>>, <<ObjData(IcsText(<<AllDay(0, 1, PlainLabel)>>))>>,
   <<ObjData(Garbage), ObjData(IcsText(<<AllDay(MaxDay, 1, Short3Label)>>))>>}

BrokenLists == {<<ObjData(BrokenIcs(<<AllDay(d, 1, PlainLabel)>>))>> : d \in Days}

Fetched ==
  {<<b, <<>>>> : b \in SingleEventLists \cup BrokenLists}
    \cup {<<<<>>, x>> : x \in {q \in SingleEventLists :
                                 q[1].data.vevents[1].summary \in CoreLabels}}
    \cup {<<b, x>> : b \in MultiEventLists, x \in FewBlackouts}
    \cup {<<b, x>> : b \in MultiObjLists, x \in FewBlackouts}

\* the object /api/book writes for day d: one VEVENT, DTSTART;VALUE=DATE:d,
\* DTEND;VALUE=DATE:d+1, SUMMARY 609 Booking
BookingEntryTwoDays(d) == ObjData(IcsText(<<AllDay(d, 2, PlainLabel)>>))
BookingEntry(d) == ObjData(IcsText(<<AllDay(d, 1, PlainLabel)>>))

\* ------------------------------------------------------------- state
VARIABLES envOK, pc, req, bookingObjs, blackoutObjs, resp
availabilityVars == <<pc, req, bookingObjs, blackoutObjs, resp>>

\* /api/book (src/api/book.js): the position of the handler, its request,
\* the two collections it fetched, its answer and the objects it has written
\* to the Bookings calendar
VARIABLES bookPc, bookReq, bookObjs, bookResp, bookCreated
bookVars == <<bookPc, bookReq, bookObjs, bookResp, bookCreated>>

\* the Stripe webhook: the position of the handler, the delivery, the day
\* record its re-check read, whether the re-check ended in its catch, its
\* answer and the calls it has sent out
VARIABLES hookPc, hookReq, hookDay, hookCaught, hookResp, hookCalls
hookVars == <<hookPc, hookReq, hookDay, hookCaught, hookResp, hookCalls>>

\* two invocations of the availability handler side by side: the position of
\* each, its request, the locals of each scope, its two fetches in flight,
\* the order in which they settled and its answer
VARIABLES pcOf, reqOf, localsOf, inFlight, arrived, respOf
pairVars == <<pcOf, reqOf, localsOf, inFlight, arrived, respOf>>

\* /api/checkout (src/api/checkout.js): the position of the handler, the
\* order, the day record its re-check read, its answer and the calls it has
\* sent to Stripe
VARIABLES checkoutPc, checkoutReq, checkoutDay, checkoutResp, checkoutCalls
checkoutVars == <<checkoutPc, checkoutReq, checkoutDay, checkoutResp, checkoutCalls>>

\* the CalDAV server's two calendars, the invocations of /api/book working
\* on them (position, date, the two collections fetched, answer), the paid
\* session and the deliveries of its event to the webhook
VARIABLES bookingsCal, blackoutsCal, callPc, callDate, callSeen, callResp,
          session, dlvPc, dlvResp
systemVars ==
  <<bookingsCal, blackoutsCal, callPc, callDate, callSeen, callResp, session, dlvPc, dlvResp>>

vars == <<envOK, availabilityVars, bookVars, hookVars, pairVars, checkoutVars, systemVars>>

\* what the availability handler leaves alone
besidesAvailability == <<bookVars, hookVars, pairVars, checkoutVars, systemVars>>

NoBookReq == [method |-> "POST", date |-> QMissing]

AvailabilityIdle ==
  /\ pc = "idle"
  /\ req = NoReq
  /\ bookingObjs = <<>>
  /\ blackoutObjs = <<>>
  /\ resp = NoResp

BookIdle ==
  /\ bookPc = "idle"
  /\ bookReq = NoBookReq
  /\ bookObjs = <<<<>>, <<>>>>
  /\ bookResp = NoResp
  /\ bookCreated = <<>>

NoHookReq ==
  [variant |-> "node", method |-> "POST", configured |-> FALSE, sigOk |-> FALSE,
   type |-> "", date |-> QMissing, apiBase |-> FALSE, paymentIntent |-> FALSE]
NoHookResp == [status |-> 0, text |-> ""]
\* avail?.days?.[0] when there is none
NoDay ==
  [def |-> FALSE, available |-> FALSE, blackout |-> FALSE, bookedCount |-> 0,
   shortRecording |-> FALSE]

HookIdle ==
  /\ hookPc = "idle"
  /\ hookReq = NoHookReq
  /\ hookDay = NoDay
  /\ hookCaught = FALSE
  /\ hookResp = NoHookResp
  /\ hookCalls = <<>>

NoCheckoutReq ==
  [method |-> "POST", date |-> QMissing, totalOk |-> FALSE, stripeKey |-> FALSE]

CheckoutIdle ==
  /\ checkoutPc = "idle"
  /\ checkoutReq = NoCheckoutReq
  /\ checkoutDay = [def |-> FALSE, hasFlag |-> FALSE, available |-> FALSE,
                    blackout |-> FALSE, bookedCount |-> 0]
  /\ checkoutResp = NoHookResp
  /\ checkoutCalls = <<>>

SystemIdle ==
  /\ bookingsCal = <<>>
  /\ blackoutsCal = <<>>
  /\ callPc = [i \in 1..MaxCalls |-> "idle"]
  /\ callDate = [i \in 1..MaxCalls |-> 0]
  /\ callSeen = [i \in 1..MaxCalls |-> <<<<>>, <<>>>>]
  /\ callResp = [i \in 1..MaxCalls |-> NoResp]
  /\ session = [variant |-> "node", date |-> 0]
  /\ dlvPc = [k \in 1..MaxDeliveries |-> "idle"]
  /\ dlvResp = [k \in 1..MaxDeliveries |-> ""]

PairIdle ==
  /\ pcOf = [r \in {1, 2} |-> "idle"]
  /\ reqOf = [r \in {1, 2} |-> NoReq]
  /\ localsOf = [r \in {1, 2} |-> [startD |-> 0, endD |-> 0]]
  /\ inFlight = [r \in {1, 2} |->
                  [b |-> [state |-> "none", timeRange |-> [start |-> 0, end |-> 0], value |-> <<>>],
                   x |-> [state |-> "none", timeRange |-> [start |-> 0, end |-> 0], value |-> <<>>]]]
  /\ arrived = [r \in {1, 2} |-> <<>>]
  /\ respOf = [r \in {1, 2} |-> NoResp]

Init ==
  /\ envOK \in BOOLEAN
  /\ pc = "idle"
  /\ req = NoReq
  /\ bookingObjs = <<>>
  /\ blackoutObjs = <<>>
  /\ resp = NoResp
  /\ BookIdle
  /\ HookIdle
  /\ PairIdle
  /\ CheckoutIdle
  /\ SystemIdle

Finish(r) ==
  /\ pc' = "done"
  /\ resp' = r

\* handler, from entry to the first await: OPTIONS, needEnv, the query checks
ReceiveStartOptional(rev, method, start, end) ==
  /\ pc = "idle"
  /\ req' = [rev |-> rev, method |-> method, start |-> start, end |-> end]
  /\ UNCHANGED <<envOK, bookingObjs, blackoutObjs>>
  /\ LET endOrStart == IF end.k = "missing" THEN start ELSE end
     IN IF method = "OPTIONS" THEN Finish(Answer(204, "", <<>>))
        ELSE IF ~envOK THEN Finish(Answer(500, "availability crashed", <<>>))
        ELSE IF start.k = "invalid" \/ endOrStart.k = "invalid"
          THEN Finish(Answer(400, "invalid dates", <<>>))
        ELSE pc' = "client" /\ resp' = resp
Receive(rev, method, start, end) ==
  /\ pc = "idle"
  /\ req' = [rev |-> rev, method |-> method, start |-> start, end |-> end]
  /\ UNCHANGED <<envOK, bookingObjs, blackoutObjs>>
  /\ LET endOrStart == IF end.k = "missing" THEN start ELSE end
     IN IF method = "OPTIONS" THEN Finish(Answer(204, "", <<>>))
        ELSE IF ~envOK THEN Finish(Answer(500, "availability crashed", <<>>))
        ELSE IF start.k = "missing" THEN Finish(Answer(400, "start required", <<>>))
        ELSE IF start.k = "invalid" \/ endOrStart.k = "invalid"
          THEN Finish(Answer(400, "invalid dates", <<>>))
        ELSE pc' = "client" /\ resp' = resp

\* await createDAVClient(...)
CreateClient(ok) ==
  /\ pc = "client"
  /\ UNCHANGED <<envOK, req, bookingObjs, blackoutObjs>>
  /\ IF ok THEN pc' = "calendars" /\ resp' = resp
     ELSE Finish(Answer(500, "createDAVClient failed", <<>>))

\* await client.fetchCalendars(), then the two findCal look-ups
FetchCalendars(threw, calendars) ==
  /\ pc = "calendars"
  /\ UNCHANGED <<envOK, req, bookingObjs, blackoutObjs>>
  /\ IF threw THEN Finish(Answer(500, "fetchCalendars failed", <<>>))
     ELSE IF calendars = {} THEN Finish(Answer(500, "No calendars found", <<>>))
     ELSE IF ~findCal(calendars, BOOKINGS_CAL_NAME) \/ ~findCal(calendars, BLACKOUTS_CAL_NAME)
       THEN Finish(Answer(500, "Calendars not found", <<>>))
     ELSE pc' = "objects" /\ resp' = resp

\* await Promise.all([...]) rejects
FetchObjectsRejectedAnswers200 ==
  /\ pc = "objects"
  /\ UNCHANGED <<envOK, req, bookingObjs, blackoutObjs>>
  /\ Finish(Answer(200, "", <<>>))
FetchObjectsRejected ==
  /\ pc = "objects"
  /\ UNCHANGED <<envOK, req, bookingObjs, blackoutObjs>>
  /\ Finish(Answer(500, "fetchCalendarObjects failed", <<>>))

\* return res.status(200).json({ days }), or the catch block's 500
respond(r) ==
  IF r.threw THEN Answer(500, "availability crashed", <<>>)
  ELSE Answer(200, "", r.days)

\* the answer of the per-day loop over what was fetched
evaluate(rev, start, end, bk, bl) ==
  respond(daysLoop(rev, bk, bl, start.d, (IF end.k = "missing" THEN start.d ELSE end.d) + 1))

\* await Promise.all([...]) resolves; the loop and the answer follow in the
\* same turn
FetchObjectsResolved(bk, bl) ==
  /\ pc = "objects"
  /\ bookingObjs' = bk
  /\ blackoutObjs' = bl
  /\ UNCHANGED <<envOK, req>>
  /\ Finish(evaluate(req.rev, req.start, req.end, bk, bl))

\* the exchange is over; the next request starts from nothing
NextRequest ==
  /\ pc = "done"
  /\ pc' = "idle"
  /\ req' = NoReq
  /\ bookingObjs' = <<>>
  /\ blackoutObjs' = <<>>
  /\ resp' = NoResp
  /\ UNCHANGED envOK

Next ==
  \/ /\ pc = "idle"
     /\ UNCHANGED besidesAvailability
     /\ \E rev \in Revisions, m \in Methods, s \in QueryVals, e \in QueryVals :
          Receive(rev, m, s, e)
  \/ /\ pc = "client"
     /\ UNCHANGED besidesAvailability
     /\ \E ok \in BOOLEAN : CreateClient(ok)
  \/ /\ pc = "calendars"
     /\ UNCHANGED besidesAvailability
     /\ \E threw \in BOOLEAN, cs \in CalendarLists : FetchCalendars(threw, cs)
  \/ FetchObjectsRejected /\ UNCHANGED besidesAvailability
  \/ /\ pc = "objects"
     /\ UNCHANGED besidesAvailability
     /\ \E f \in Fetched : FetchObjectsResolved(f[1], f[2])
  \/ NextRequest /\ UNCHANGED besidesAvailability

Spec == Init /\ [][Next]_vars

\* ------------------------------------------- single-pass availability handler
\* src/unnamed/part_001: the availability handler whose per-day work is one
\* function, analyzeEventsForDate, returning { count, shortRecording }.

\* /Recording Session\s*\((\d+)h\)/i tried at position i
MatchAtSinglePass(cs, i) ==
  IF ~WordAt(cs, i, <<"r","e","c","o","r","d","i","n","g"," ","s","e","s","s","i","o","n">>)
    THEN [ok |-> FALSE, from |-> 0, to |-> 0]
  ELSE IF ~WordAt(cs, SkipClass(cs, i + 17, {" "}), <<"(">>)
    THEN [ok |-> FALSE, from |-> 0, to |-> 0]
  ELSE IF SkipClass(cs, SkipClass(cs, i + 17, {" "}) + 1, Digits)
            = SkipClass(cs, i + 17, {" "}) + 1
    THEN [ok |-> FALSE, from |-> 0, to |-> 0]
  ELSE IF ~WordAt(cs, SkipClass(cs, SkipClass(cs, i + 17, {" "}) + 1, Digits), <<"h", ")">>)
    THEN [ok |-> FALSE, from |-> 0, to |-> 0]
  ELSE [ok |-> TRUE, from |-> SkipClass(cs, i + 17, {" "}) + 1,
        to |-> SkipClass(cs, SkipClass(cs, i + 17, {" "}) + 1, Digits) - 1]

RECURSIVE MatchFromSinglePass(_, _)
MatchFromSinglePass(cs, i) ==
  IF i > Len(cs) THEN [ok |-> FALSE, from |-> 0, to |-> 0]
  ELSE IF MatchAtSinglePass(cs, i).ok THEN MatchAtSinglePass(cs, i)
  ELSE MatchFromSinglePass(cs, i + 1)

\* if (m) { hours = parseInt(m[1], 10); if (Number.isFinite(hours) && hours < 4) ... }
shortOfMatch(cs, m) == m.ok /\ parseInt(cs, m.from, m.to) < ShortHours
isShortSummarySinglePass(l) == shortOfMatch(Chars(l), MatchFromSinglePass(Chars(l), 1))

\* one pass of the loop over the events of an object: s and e are read with
\* no guard; on overlap the object is counted, its SUMMARY is tested and the
\* loop ends (break)
analyzeStep(t, summary, dayStart, dayEnd, rest) ==
  IF t.threw THEN [threw |-> TRUE, count |-> 0, shortRecording |-> FALSE]
  ELSE IF overlaps(t.s, t.e, dayStart, dayEnd)
    THEN [threw |-> FALSE, count |-> 1, shortRecording |-> isShortSummarySinglePass(summary)]
  ELSE rest

RECURSIVE analyzeEvents(_, _, _, _)
analyzeEvents(events, i, dayStart, dayEnd) ==
  IF i > Len(events) THEN [threw |-> FALSE, count |-> 0, shortRecording |-> FALSE]
  ELSE analyzeStep(readTimes(TRUE, startOf(events[i]), endOf(events[i])),
                   events[i].summary, dayStart, dayEnd,
                   analyzeEvents(events, i + 1, dayStart, dayEnd))

\* try { ICAL.parse(obj.data) ... } catch { /* ignore malformed items */ }:
\* an object whose data does not parse, or one of whose events throws before
\* an overlap was found, adds nothing
caught(r) ==
  IF r.threw THEN [count |-> 0, shortRecording |-> FALSE]
  ELSE [count |-> r.count, shortRecording |-> r.shortRecording]
analyzeObject(obj, dayStart, dayEnd) ==
  IF ~(Truthy(obj.data) /\ obj.data.wellFormed) THEN [count |-> 0, shortRecording |-> FALSE]
  ELSE caught(analyzeEvents(obj.data.vevents, 1, dayStart, dayEnd))

tally(r, rest) ==
  [count |-> r.count + rest.count, shortRecording |-> r.shortRecording \/ rest.shortRecording]

RECURSIVE analyzeFrom(_, _, _, _)
analyzeFrom(objects, i, dayStart, dayEnd) ==
  IF i > Len(objects) THEN [count |-> 0, shortRecording |-> FALSE]
  ELSE tally(analyzeObject(objects[i], dayStart, dayEnd),
             analyzeFrom(objects, i + 1, dayStart, dayEnd))

analyzeEventsForDate(objects, jsDate) ==
  analyzeFrom(objects, 1, dayStartOf(jsDate), dayEndOf(jsDate))

\* the body of the per-day loop: days.push({ date, available, ... })
dayOfAnalysis(d, bookings, blackouts) ==
  [date |-> d,
   available |-> availableRule(blackouts.count > 0, bookings.count, bookings.shortRecording),
   blackout |-> blackouts.count > 0,
   bookedCount |-> bookings.count,
   shortRecording |-> bookings.shortRecording]

RECURSIVE daysLoopSinglePass(_, _, _, _)
daysLoopSinglePass(bk, bl, d, endExclusive) ==
  IF ~(LocalMidnight(d) < LocalMidnight(endExclusive)) THEN <<>>
  ELSE <<dayOfAnalysis(d, analyzeEventsForDate(bk, LocalMidnight(d)),
                       analyzeEventsForDate(bl, LocalMidnight(d)))>>
         \o daysLoopSinglePass(bk, bl, d + 1, endExclusive)

\* return res.status(200).json({ days })
evaluateSinglePass(start, end, bk, bl) ==
  Answer(200, "", daysLoopSinglePass(bk, bl, start.d,
                                     (IF end.k = "missing" THEN start.d ELSE end.d) + 1))

SinglePass == 3

\* await Promise.all([...]) resolves; the loop and the answer follow in the
\* same turn
SinglePassResolved(bk, bl) ==
  /\ pc = "objects"
  /\ bookingObjs' = bk
  /\ blackoutObjs' = bl
  /\ UNCHANGED <<envOK, req>>
  /\ Finish(evaluateSinglePass(req.start, req.end, bk, bl))

\* the handler of part_001: validation, client, calendars and the rejected
\* fetch are those of the other revisions
NextSinglePass ==
  \/ /\ pc = "idle"
     /\ UNCHANGED besidesAvailability
     /\ \E m \in Methods, s \in QueryVals, e \in QueryVals : Receive(SinglePass, m, s, e)
  \/ /\ pc = "client"
     /\ UNCHANGED besidesAvailability
     /\ \E ok \in BOOLEAN : CreateClient(ok)
  \/ /\ pc = "calendars"
     /\ UNCHANGED besidesAvailability
     /\ \E threw \in BOOLEAN, cs \in CalendarLists : FetchCalendars(threw, cs)
  \/ FetchObjectsRejected /\ UNCHANGED besidesAvailability
  \/ /\ pc = "objects"
     /\ UNCHANGED besidesAvailability
     /\ \E f \in Fetched : SinglePassResolved(f[1], f[2])
  \/ NextRequest /\ UNCHANGED besidesAvailability

SpecSinglePass == Init /\ [][NextSinglePass]_vars

\* ------------------------------------------------------------- /api/book
\* src/api/book.js, the handler that creates the all-day booking (third
\* revision of the file; the first has the same capacity check)
BookMethods == {"POST", "GET", "OPTIONS"}

\* what the two fetches of the day's range may resolve to
BookFetched ==
  {<<b, x>> : b \in MultiObjLists, x \in FewBlackouts}
    \cup {<<b, <<>>>> : b \in MultiEventLists}

BookFinish(r) ==
  /\ bookPc' = "done"
  /\ bookResp' = r

\* const bookedCount = bookingObjs?.length || 0
bookedCountOf(objs) == Len(objs)
\* const isBlackout = (blackoutObjs?.length || 0) > 0
isBlackoutOf(objs) == Len(objs) > 0

\* if (isBlackout || bookedCount >= 2) return res.status(409)...
refusesCapacityOnly(bk, bl) == bookedCountOf(bk) >= 2
refuses(bk, bl) == isBlackoutOf(bl) \/ bookedCountOf(bk) >= 2

\* handler, from entry to the first await
BookReceive(method, date) ==
  /\ bookPc = "idle"
  /\ bookReq' = [method |-> method, date |-> date]
  /\ UNCHANGED <<envOK, bookObjs, bookCreated>>
  /\ IF method = "OPTIONS" THEN BookFinish(Answer(204, "", <<>>))
     ELSE IF method # "POST" THEN BookFinish(Answer(405, "POST only", <<>>))
     ELSE IF ~envOK THEN BookFinish(Answer(500, "book failed", <<>>))
     ELSE IF date.k # "date"
       THEN BookFinish(Answer(400, "date required (YYYY-MM-DD)", <<>>))
     ELSE bookPc' = "client" /\ bookResp' = bookResp

\* await createDAVClient(...)
BookCreateClient(ok) ==
  /\ bookPc = "client"
  /\ UNCHANGED <<envOK, bookReq, bookObjs, bookCreated>>
  /\ IF ok THEN bookPc' = "calendars" /\ bookResp' = bookResp
     ELSE BookFinish(Answer(500, "book failed", <<>>))

\* await client.fetchCalendars(), then the two findCal look-ups
BookFetchCalendars(threw, calendars) ==
  /\ bookPc = "calendars"
  /\ UNCHANGED <<envOK, bookReq, bookObjs, bookCreated>>
  /\ IF threw THEN BookFinish(Answer(500, "book failed", <<>>))
     ELSE IF ~findCal(calendars, BOOKINGS_CAL_NAME) \/ ~findCal(calendars, BLACKOUTS_CAL_NAME)
       THEN BookFinish(Answer(500, "Calendars not found", <<>>))
     ELSE bookPc' = "objects" /\ bookResp' = bookResp

\* await Promise.all([...]) rejects: the outer catch
BookFetchRejected ==
  /\ bookPc = "objects"
  /\ UNCHANGED <<envOK, bookReq, bookObjs, bookCreated>>
  /\ BookFinish(Answer(500, "book failed", <<>>))

\* await Promise.all([...]) resolves; the capacity check follows in the same
\* turn, and createCalendarObject is called when it passes
BookFetchResolved(bk, bl) ==
  /\ bookPc = "objects"
  /\ bookObjs' = <<bk, bl>>
  /\ UNCHANGED <<envOK, bookReq, bookCreated>>
  /\ IF refuses(bk, bl) THEN BookFinish(Answer(409, "date not available", <<>>))
     ELSE bookPc' = "create" /\ bookResp' = bookResp

\* await client.createCalendarObject(...)
BookCreate(ok) ==
  /\ bookPc = "create"
  /\ UNCHANGED <<envOK, bookReq, bookObjs>>
  /\ IF ok THEN /\ bookCreated' = Append(bookCreated, BookingEntry(bookReq.date.d))
                /\ BookFinish(Answer(200, "", <<>>))
     ELSE /\ bookCreated' = bookCreated
          /\ BookFinish(Answer(500, "book failed", <<>>))

\* the exchange is over; the next request starts from nothing
BookNextRequest ==
  /\ bookPc = "done"
  /\ bookPc' = "idle"
  /\ bookReq' = NoBookReq
  /\ bookObjs' = <<<<>>, <<>>>>
  /\ bookResp' = NoResp
  /\ bookCreated' = <<>>
  /\ UNCHANGED envOK

\* what /api/book leaves alone
besidesBook == <<availabilityVars, hookVars, pairVars, checkoutVars, systemVars>>

InitBook ==
  /\ envOK \in BOOLEAN
  /\ AvailabilityIdle
  /\ BookIdle
  /\ HookIdle
  /\ PairIdle
  /\ CheckoutIdle
  /\ SystemIdle

NextBook ==
  \/ /\ bookPc = "idle"
     /\ UNCHANGED besidesBook
     /\ \E m \in BookMethods, d \in QueryVals : BookReceive(m, d)
  \/ /\ bookPc = "client"
     /\ UNCHANGED besidesBook
     /\ \E ok \in BOOLEAN : BookCreateClient(ok)
  \/ /\ bookPc = "calendars"
     /\ UNCHANGED besidesBook
     /\ \E threw \in BOOLEAN, cs \in CalendarLists : BookFetchCalendars(threw, cs)
  \/ BookFetchRejected /\ UNCHANGED besidesBook
  \/ /\ bookPc = "objects"
     /\ UNCHANGED besidesBook
     /\ \E f \in BookFetched : BookFetchResolved(f[1], f[2])
  \/ /\ bookPc = "create"
     /\ UNCHANGED besidesBook
     /\ \E ok \in BOOLEAN : BookCreate(ok)
  \/ BookNextRequest /\ UNCHANGED besidesBook

SpecBook == InitBook /\ [][NextBook]_vars

\* ------------------------------------------------------------- Stripe webhook
\* The payment-confirmation handler, in its Node form
\* (src/api/stripe-webhook.js) and its Edge form (src/unnamed/part_004).
HookVariants == {"node", "edge"}
HookMethods == {"POST", "GET"}
EventTypes == {"checkout.session.completed", "payment_intent.succeeded"}

\* avail?.days?.[0]
firstDay(avail) ==
  IF Len(avail.days) = 0 THEN NoDay
  ELSE [def |-> TRUE, available |-> avail.days[1].available,
        blackout |-> avail.days[1].blackout, bookedCount |-> avail.days[1].bookedCount,
        shortRecording |-> avail.days[1].shortRecording]

\* the calendars behind the re-check
HookCalendars ==
  {<<b, x>> : b \in MultiObjLists, x \in FewBlackouts}

\* what GET /api/availability?start=date&end=date may answer
AvailabilityAnswers(date) ==
  IF date.k # "date" THEN {Answer(400, "invalid dates", <<>>)}
  ELSE {evaluate(rev, date, date, f[1], f[2]) : rev \in Revisions, f \in HookCalendars}
         \cup {Answer(500, "fetchCalendarObjects failed", <<>>)}

HookFinish(status, text) ==
  /\ hookPc' = "done"
  /\ hookResp' = [status |-> status, text |-> text]

\* if (!day || day.blackout || day.bookedCount >= 2)              (Node)
\* if (day?.blackout || (Number(day?.bookedCount) >= 2))          (Edge)
noCapacity(variant, day) ==
  IF variant = "node" THEN ~day.def \/ day.blackout \/ day.bookedCount >= 2
  ELSE day.def /\ (day.blackout \/ day.bookedCount >= 2)

\* stripe.webhooks.constructEvent / verifyStripeSignature: returns the event
\* when the stripe-signature header is present and matches the raw body, and
\* throws otherwise
verifyStripeSignatureLax(sigOk) == TRUE
verifyStripeSignature(sigOk) == sigOk

\* handler, from entry to the availability fetch
HookReceive(variant, method, configured, sigOk, type, date, apiBase, paymentIntent) ==
  /\ hookPc = "idle"
  /\ hookReq' = [variant |-> variant, method |-> method, configured |-> configured,
                 sigOk |-> sigOk, type |-> type, date |-> date, apiBase |-> apiBase,
                 paymentIntent |-> paymentIntent]
  /\ UNCHANGED <<hookDay, hookCaught>>
  /\ IF method # "POST" THEN HookFinish(405, "Method Not Allowed") /\ hookCalls' = hookCalls
     ELSE IF ~configured THEN HookFinish(500, "Stripe not configured") /\ hookCalls' = hookCalls
     ELSE IF ~verifyStripeSignature(sigOk) THEN HookFinish(400, "signature verification failed") /\ hookCalls' = hookCalls
     ELSE IF type # "checkout.session.completed"
       THEN HookFinish(200, "received") /\ hookCalls' = hookCalls
     ELSE IF variant = "edge" /\ (~apiBase \/ date.k = "missing")
       THEN HookFinish(200, "ignored-missing-metadata") /\ hookCalls' = hookCalls
     ELSE /\ hookPc' = "recheck"
          /\ hookResp' = hookResp
          /\ hookCalls' = <<"availability">>

\* the availability fetch settles; the capacity test follows in the same turn
\* (the mutant runs the capacity test on the undefined day after the catch)
HookRecheckCatchFallsInto(threw, avail) ==
  /\ hookPc = "recheck"
  /\ hookReq' = hookReq
  /\ hookDay' = IF threw THEN NoDay ELSE firstDay(avail)
  /\ hookCaught' = threw
  /\ IF ~noCapacity(hookReq.variant, hookDay')
       THEN /\ hookPc' = "book" /\ hookResp' = hookResp
            /\ hookCalls' = Append(hookCalls, "book")
     ELSE IF hookReq.variant = "node"
       THEN HookFinish(200, "no capacity") /\ hookCalls' = hookCalls
     ELSE IF hookReq.paymentIntent
       THEN /\ hookPc' = "refund" /\ hookResp' = hookResp
            /\ hookCalls' = Append(hookCalls, "refund")
     ELSE HookFinish(200, "refunded-no-capacity") /\ hookCalls' = hookCalls
HookRecheck(threw, avail) ==
  /\ hookPc = "recheck"
  /\ hookReq' = hookReq
  /\ hookDay' = IF threw THEN NoDay ELSE firstDay(avail)
  /\ hookCaught' = threw
  /\ IF hookReq.variant = "node" /\ threw
       THEN /\ hookPc' = "book" /\ hookResp' = hookResp
            /\ hookCalls' = Append(hookCalls, "book")
     ELSE IF ~noCapacity(hookReq.variant, hookDay')
       THEN /\ hookPc' = "book" /\ hookResp' = hookResp
            /\ hookCalls' = Append(hookCalls, "book")
     ELSE IF hookReq.variant = "node"
       THEN HookFinish(200, "no capacity") /\ hookCalls' = hookCalls
     ELSE IF hookReq.paymentIntent
       THEN /\ hookPc' = "refund" /\ hookResp' = hookResp
            /\ hookCalls' = Append(hookCalls, "refund")
     ELSE HookFinish(200, "refunded-no-capacity") /\ hookCalls' = hookCalls

\* Edge: await fetch('https://api.stripe.com/v1/refunds', ...)
HookRefund(threw) ==
  /\ hookPc = "refund"
  /\ UNCHANGED <<hookReq, hookDay, hookCaught, hookCalls>>
  /\ IF threw THEN HookFinish(400, "Webhook error")
     ELSE HookFinish(200, "refunded-no-capacity")

\* await fetch(`${apiBase}/api/book`, ...): answered ok, answered not ok, threw
HookBook(outcome) ==
  /\ hookPc = "book"
  /\ UNCHANGED <<hookReq, hookDay, hookCaught, hookCalls>>
  /\ IF outcome = "ok" THEN HookFinish(200, "booked")
     ELSE IF hookReq.variant = "node" THEN HookFinish(200, "paid but booking failed")
     ELSE IF outcome = "not ok" THEN HookFinish(200, "paid-booking-failed")
     ELSE HookFinish(200, "paid-book-call-error")

\* the exchange is over; the next delivery starts from nothing
HookNextRequest ==
  /\ hookPc = "done"
  /\ hookPc' = "idle"
  /\ hookReq' = NoHookReq
  /\ hookDay' = NoDay
  /\ hookCaught' = FALSE
  /\ hookResp' = NoHookResp
  /\ hookCalls' = <<>>

\* what the webhook leaves alone
besidesHook == <<envOK, availabilityVars, bookVars, pairVars, checkoutVars, systemVars>>

InitHook ==
  /\ envOK = TRUE
  /\ AvailabilityIdle
  /\ BookIdle
  /\ HookIdle
  /\ PairIdle
  /\ CheckoutIdle
  /\ SystemIdle

NextHook ==
  \/ /\ hookPc = "idle"
     /\ UNCHANGED besidesHook
     /\ \E v \in HookVariants, m \in HookMethods, c \in BOOLEAN, s \in BOOLEAN,
           t \in EventTypes, d \in QueryVals, a \in BOOLEAN, p \in BOOLEAN :
          HookReceive(v, m, c, s, t, d, a, p)
  \/ /\ hookPc = "recheck"
     /\ UNCHANGED besidesHook
     /\ \/ \E avail \in AvailabilityAnswers(hookReq.date) : HookRecheck(FALSE, avail)
        \/ HookRecheck(TRUE, Answer(0, "", <<>>))
  \/ /\ hookPc = "refund"
     /\ UNCHANGED besidesHook
     /\ \E threw \in BOOLEAN : HookRefund(threw)
  \/ /\ hookPc = "book"
     /\ UNCHANGED besidesHook
     /\ \E o \in {"ok", "not ok", "threw"} : HookBook(o)
  \/ HookNextRequest /\ UNCHANGED besidesHook

SpecHook == InitHook /\ [][NextHook]_vars

\* ------------------------------------------------------------- concurrent requests
\* Two invocations of the availability handler on one Node process,
\* interleaved at their awaits; within an invocation the two
\* fetchCalendarObjects calls are in flight together and settle in any order.
Requests == {1, 2}

\* the scope that holds the locals of invocation r: every call of handler
\* has its own; the mutant keeps them in one module-level scope
scopeShared(r) == 1
scopeOf(r) == r

\* const timeRange = { start: startD.toDate().toISOString(),
\*                     end: endD.add(1, 'day').toDate().toISOString() }
timeRange(startD, endD) == [start |-> LocalMidnight(startD), end |-> LocalMidnight(endD + 1)]

Pending(tr) == [state |-> "pending", timeRange |-> tr, value |-> <<>>]

\* Promise.all([...]) resolves to the results in the order of the array; the
\* mutant hands them over in the order they arrived
promiseAllByArrival(order, b, x) == IF order[1] = "x" THEN <<x, b>> ELSE <<b, x>>
promiseAll(order, b, x) == <<b, x>>

\* what either fetch may resolve to
PairBookings ==
  {<<>>, <<BookingEntry(0)>>,
   <<ObjData(IcsText(<<AllDay(0, 1, Short3Label)>>)), BookingEntry(MaxDay)>>}
PairBlackouts == {<<>>, <<BookingEntry(MaxDay)>>}
PairValues(which) == IF which = "b" THEN PairBookings ELSE PairBlackouts

other(which) == IF which = "b" THEN "x" ELSE "b"

\* the requests sent to either invocation: method, start, end
PairQueries ==
  {<<"OPTIONS", QDate(0), QMissing>>, <<"GET", QMissing, QMissing>>,
   <<"GET", QInvalid, QMissing>>, <<"GET", QDate(0), QInvalid>>}
    \cup {<<"GET", QDate(d), e>> : d \in Days, e \in {QMissing, QDate(MaxDay)}}

PairFinish(r, a) ==
  /\ pcOf' = [pcOf EXCEPT ![r] = "done"]
  /\ respOf' = [respOf EXCEPT ![r] = a]

PairStep(r, p) ==
  /\ pcOf' = [pcOf EXCEPT ![r] = p]
  /\ respOf' = respOf

\* handler, from entry to the first await
PairReceive(r, rev, method, start, end) ==
  /\ pcOf[r] = "idle"
  /\ reqOf' = [reqOf EXCEPT ![r] = [rev |-> rev, method |-> method, start |-> start, end |-> end]]
  /\ UNCHANGED <<envOK, inFlight, arrived>>
  /\ LET endOrStart == IF end.k = "missing" THEN start ELSE end
     IN IF method = "OPTIONS" THEN PairFinish(r, Answer(204, "", <<>>)) /\ localsOf' = localsOf
        ELSE IF ~envOK
          THEN PairFinish(r, Answer(500, "availability crashed", <<>>)) /\ localsOf' = localsOf
        ELSE IF start.k = "missing"
          THEN PairFinish(r, Answer(400, "start required", <<>>)) /\ localsOf' = localsOf
        ELSE /\ localsOf' = [localsOf EXCEPT ![scopeOf(r)] = [startD |-> start.d, endD |-> endOrStart.d]]
             /\ IF start.k = "invalid" \/ endOrStart.k = "invalid"
                  THEN PairFinish(r, Answer(400, "invalid dates", <<>>))
                ELSE PairStep(r, "client")

\* await createDAVClient(...)
PairCreateClient(r, ok) ==
  /\ pcOf[r] = "client"
  /\ UNCHANGED <<envOK, reqOf, localsOf, inFlight, arrived>>
  /\ IF ok THEN PairStep(r, "calendars")
     ELSE PairFinish(r, Answer(500, "createDAVClient failed", <<>>))

\* await client.fetchCalendars(), the two findCal look-ups, the time range
\* and the two fetchCalendarObjects calls handed to Promise.all
PairFetchCalendars(r, threw, calendars) ==
  /\ pcOf[r] = "calendars"
  /\ UNCHANGED <<envOK, reqOf, localsOf, arrived>>
  /\ IF threw
       THEN PairFinish(r, Answer(500, "fetchCalendars failed", <<>>)) /\ inFlight' = inFlight
     ELSE IF calendars = {}
       THEN PairFinish(r, Answer(500, "No calendars found", <<>>)) /\ inFlight' = inFlight
     ELSE IF ~findCal(calendars, BOOKINGS_CAL_NAME) \/ ~findCal(calendars, BLACKOUTS_CAL_NAME)
       THEN PairFinish(r, Answer(500, "Calendars not found", <<>>)) /\ inFlight' = inFlight
     ELSE /\ PairStep(r, "objects")
          /\ inFlight' =
               [inFlight EXCEPT ![r] =
                  [b |-> Pending(timeRange(localsOf[scopeOf(r)].startD, localsOf[scopeOf(r)].endD)),
                   x |-> Pending(timeRange(localsOf[scopeOf(r)].startD, localsOf[scopeOf(r)].endD))]]

\* the answer once both results are in
pairAnswer(rev, locals, results) ==
  evaluate(rev, QDate(locals.startD), QDate(locals.endD), results[1], results[2])

\* one of the two fetches settles; Promise.all rejects with the first
\* rejection and resolves when the second result is in, and the loop and the
\* answer follow in the same turn
PairSettle(r, which, ok, value) ==
  /\ pcOf[r] = "objects"
  /\ inFlight[r][which].state = "pending"
  /\ UNCHANGED <<envOK, reqOf, localsOf>>
  /\ inFlight' = [inFlight EXCEPT ![r][which].state = IF ok THEN "resolved" ELSE "rejected",
                                  ![r][which].value = IF ok THEN value ELSE <<>>]
  /\ arrived' = [arrived EXCEPT ![r] = Append(arrived[r], which)]
  /\ IF ~ok THEN PairFinish(r, Answer(500, "fetchCalendarObjects failed", <<>>))
     ELSE IF inFlight[r][other(which)].state = "resolved"
       THEN PairFinish(r, pairAnswer(reqOf[r].rev, localsOf[scopeOf(r)],
                                     promiseAll(arrived'[r], inFlight'[r].b.value,
                                                inFlight'[r].x.value)))
     ELSE PairStep(r, "objects")

InitPair ==
  /\ envOK \in BOOLEAN
  /\ AvailabilityIdle
  /\ BookIdle
  /\ HookIdle
  /\ PairIdle
  /\ CheckoutIdle
  /\ SystemIdle

\* what the two invocations leave alone
besidesPair == <<availabilityVars, bookVars, hookVars, checkoutVars, systemVars>>

NextPair ==
  \/ \E r \in Requests :
       /\ pcOf[r] = "idle"
       /\ UNCHANGED besidesPair
       /\ \E rev \in Revisions, q \in PairQueries : PairReceive(r, rev, q[1], q[2], q[3])
  \/ \E r \in Requests :
       /\ pcOf[r] = "client"
       /\ UNCHANGED besidesPair
       /\ \E ok \in BOOLEAN : PairCreateClient(r, ok)
  \/ \E r \in Requests :
       /\ pcOf[r] = "calendars"
       /\ UNCHANGED besidesPair
       /\ \E threw \in BOOLEAN, cs \in CalendarLists : PairFetchCalendars(r, threw, cs)
  \/ \E r \in Requests, which \in {"b", "x"} :
       /\ pcOf[r] = "objects"
       /\ UNCHANGED besidesPair
       /\ \/ \E v \in PairValues(which) : PairSettle(r, which, TRUE, v)
          \/ PairSettle(r, which, FALSE, <<>>)

SpecPair == InitPair /\ [][NextPair]_vars

\* ------------------------------------------------------------------- checkout
\* src/api/checkout.js: validates the order, re-checks the day through the
\* public availability endpoint and opens a Stripe Checkout session.
CheckoutMethods == {"POST", "GET", "OPTIONS"}

\* the day record as checkout.js reads it: the availability endpoint of this
\* repository always sends the 'available' flag; PUBLIC_API_BASE may point
\* at a deployment that does not
withFlag(day) ==
  [def |-> day.def, hasFlag |-> day.def, available |-> day.available,
   blackout |-> day.blackout, bookedCount |-> day.bookedCount]
withoutFlag(day) ==
  [def |-> day.def, hasFlag |-> FALSE, available |-> FALSE,
   blackout |-> day.blackout, bookedCount |-> day.bookedCount]
NoCheckoutDay == withFlag(NoDay)

\* const day = avail?.days?.[0] for every body the endpoint may send
CheckoutDays(date) ==
  {withFlag(firstDay(a)) : a \in {b \in AvailabilityAnswers(date) : b.status = 200}}
    \cup {withoutFlag(firstDay(a)) : a \in {b \in AvailabilityAnswers(date) : b.status = 200}}
    \cup {NoCheckoutDay}

\* const isAvailable = day?.available === true ||
\*   (!!day && day.blackout === false && Number(day.bookedCount || 0) <= 1)
isAvailable(day) ==
  \/ (day.def /\ day.hasFlag /\ day.available)
  \/ (day.def /\ ~day.blackout /\ day.bookedCount <= 1)

CheckoutFinish(status, error) ==
  /\ checkoutPc' = "done"
  /\ checkoutResp' = [status |-> status, error |-> error]

\* handler, from entry to the availability fetch
CheckoutReceive(method, date, totalOk, stripeKey) ==
  /\ checkoutPc = "idle"
  /\ checkoutReq' = [method |-> method, date |-> date, totalOk |-> totalOk,
                     stripeKey |-> stripeKey]
  /\ UNCHANGED <<checkoutDay, checkoutCalls>>
  /\ IF method = "OPTIONS" THEN CheckoutFinish(204, "")
     ELSE IF method # "POST" THEN CheckoutFinish(405, "Method not allowed")
     ELSE IF date.k # "date" THEN CheckoutFinish(400, "Invalid or missing date")
     ELSE IF ~totalOk THEN CheckoutFinish(400, "Invalid total amount")
     ELSE checkoutPc' = "recheck" /\ checkoutResp' = checkoutResp

\* await fetch(availURL), await availRes.text(), JSON.parse; the decision
\* follows in the same turn
CheckoutRecheck(threw, ok, day) ==
  /\ checkoutPc = "recheck"
  /\ checkoutReq' = checkoutReq
  /\ checkoutDay' = IF threw \/ ~ok THEN NoCheckoutDay ELSE day
  /\ IF threw THEN CheckoutFinish(500, "Server error") /\ checkoutCalls' = checkoutCalls
     ELSE IF ~ok
       THEN CheckoutFinish(502, "Availability check failed upstream")
              /\ checkoutCalls' = checkoutCalls
     ELSE IF ~day.def \/ ~isAvailable(day)
       THEN CheckoutFinish(409, "Selected date is not available")
              /\ checkoutCalls' = checkoutCalls
     ELSE IF ~checkoutReq.stripeKey
       THEN CheckoutFinish(500, "STRIPE_SECRET_KEY not configured")
              /\ checkoutCalls' = checkoutCalls
     ELSE /\ checkoutPc' = "session" /\ checkoutResp' = checkoutResp
          /\ checkoutCalls' = Append(checkoutCalls, "checkout/sessions")

\* await fetch('https://api.stripe.com/v1/checkout/sessions', ...) and
\* createRes.json(): a session with a url, a refusal, or a thrown fetch
CheckoutCreateSession(outcome) ==
  /\ checkoutPc = "session"
  /\ UNCHANGED <<checkoutReq, checkoutDay, checkoutCalls>>
  /\ IF outcome = "ok" THEN CheckoutFinish(200, "")
     ELSE IF outcome = "not ok" THEN CheckoutFinish(500, "Stripe session failed")
     ELSE CheckoutFinish(500, "Server error")

\* the exchange is over; the next order starts from nothing
CheckoutNextRequest ==
  /\ checkoutPc = "done"
  /\ checkoutPc' = "idle"
  /\ checkoutReq' = NoCheckoutReq
  /\ checkoutDay' = NoCheckoutDay
  /\ checkoutResp' = NoHookResp
  /\ checkoutCalls' = <<>>

\* what checkout leaves alone
besidesCheckout == <<envOK, availabilityVars, bookVars, hookVars, pairVars, systemVars>>

InitCheckout ==
  /\ envOK = TRUE
  /\ AvailabilityIdle
  /\ BookIdle
  /\ HookIdle
  /\ PairIdle
  /\ CheckoutIdle
  /\ SystemIdle

NextCheckout ==
  \/ /\ checkoutPc = "idle"
     /\ UNCHANGED besidesCheckout
     /\ \E m \in CheckoutMethods, d \in QueryVals, t \in BOOLEAN, k \in BOOLEAN :
          CheckoutReceive(m, d, t, k)
  \/ /\ checkoutPc = "recheck"
     /\ UNCHANGED besidesCheckout
     /\ \E threw \in BOOLEAN, ok \in BOOLEAN, day \in CheckoutDays(checkoutReq.date) :
          CheckoutRecheck(threw, ok, day)
  \/ /\ checkoutPc = "session"
     /\ UNCHANGED besidesCheckout
     /\ \E o \in {"ok", "not ok", "threw"} : CheckoutCreateSession(o)
  \/ CheckoutNextRequest /\ UNCHANGED besidesCheckout

SpecCheckout == InitCheckout /\ [][NextCheckout]_vars

\* -------------------------------------------- handlers on one shared calendar
\* Several invocations of /api/book (src/api/book.js) and deliveries of one
\* paid session to the webhook (src/api/stripe-webhook.js, part_004), all
\* reading and writing the same Bookings calendar on the CalDAV server.
Calls == 1..MaxCalls
Deliveries == 1..MaxDeliveries

\* the server's answer to fetchCalendarObjects({ calendar, timeRange }): the
\* objects of the calendar with an event inside the range (the server reads a
\* DATE value in the time zone the service runs in)
inTimeRange(obj, tr) == objectOverlap(1, obj, tr.start, tr.end) = "hit"
fetchCalendarObjects(calendar, tr) == SelectSeq(calendar, LAMBDA o : inTimeRange(o, tr))

CallStep(i, p) ==
  /\ callPc' = [callPc EXCEPT ![i] = p]
  /\ callResp' = callResp
CallFinish(i, a) ==
  /\ callPc' = [callPc EXCEPT ![i] = "done"]
  /\ callResp' = [callResp EXCEPT ![i] = a]

\* book.js handler for a POST with a date, from entry to the Promise.all of
\* the two fetches: createDAVClient and fetchCalendars read nothing of the
\* calendars' contents
SysBookReceive(i, date, ok) ==
  /\ callPc[i] = "idle"
  /\ callDate' = [callDate EXCEPT ![i] = date]
  /\ UNCHANGED <<bookingsCal, blackoutsCal, callSeen>>
  /\ IF ok THEN CallStep(i, "objects")
     ELSE CallFinish(i, Answer(500, "book failed", <<>>))

\* await Promise.all([...]): both fetches read the calendars as they are now;
\* the capacity check follows in the same turn
SysBookFetch(i, ok) ==
  /\ callPc[i] = "objects"
  /\ UNCHANGED <<bookingsCal, blackoutsCal, callDate>>
  /\ IF ~ok
       THEN CallFinish(i, Answer(500, "book failed", <<>>)) /\ callSeen' = callSeen
     ELSE /\ callSeen' = [callSeen EXCEPT ![i] =
                 <<fetchCalendarObjects(bookingsCal, timeRange(callDate[i], callDate[i])),
                   fetchCalendarObjects(blackoutsCal, timeRange(callDate[i], callDate[i]))>>]
          /\ IF refuses(callSeen'[i][1], callSeen'[i][2])
               THEN CallFinish(i, Answer(409, "date not available", <<>>))
             ELSE CallStep(i, "create")

\* buildICS and await client.createCalendarObject(...): the entry is appended
\* to the Bookings calendar, or the call throws and the catch answers 500
SysBookCreate(i, ok) ==
  /\ callPc[i] = "create"
  /\ UNCHANGED <<blackoutsCal, callDate, callSeen>>
  /\ IF ok THEN /\ bookingsCal' = Append(bookingsCal, BookingEntry(callDate[i]))
                /\ CallFinish(i, Answer(200, "", <<>>))
     ELSE /\ bookingsCal' = bookingsCal
          /\ CallFinish(i, Answer(500, "book failed", <<>>))

\* GET /api/availability?start=date&end=date answered from the calendars as
\* they are now
availabilityOf(rev, bookings, blackouts, date) ==
  evaluate(rev, QDate(date), QDate(date),
           fetchCalendarObjects(bookings, timeRange(date, date)),
           fetchCalendarObjects(blackouts, timeRange(date, date)))
availabilityNow(rev, date) == availabilityOf(rev, bookingsCal, blackoutsCal, date)

\* a verified checkout.session.completed event of the paid session arrives
DlvReceive(k) ==
  /\ dlvPc[k] = "idle"
  /\ dlvPc' = [dlvPc EXCEPT ![k] = "recheck"]
  /\ UNCHANGED <<bookingsCal, blackoutsCal, callPc, callDate, callSeen, callResp,
                 session, dlvResp>>

\* the re-check settles and the capacity test follows; when it passes the
\* delivery sends POST /api/book, which starts invocation k of book.js
DlvRecheck(k, rev, threw, ok) ==
  /\ dlvPc[k] = "recheck"
  /\ callPc[k] = "idle"
  /\ UNCHANGED <<bookingsCal, blackoutsCal, callSeen, session>>
  /\ IF (threw /\ session.variant = "node")
        \/ ~noCapacity(session.variant,
                       IF threw THEN NoDay ELSE firstDay(availabilityNow(rev, session.date)))
       THEN /\ dlvPc' = [dlvPc EXCEPT ![k] = "book"]
            /\ dlvResp' = dlvResp
            /\ callDate' = [callDate EXCEPT ![k] = session.date]
            /\ IF ok THEN CallStep(k, "objects")
               ELSE CallFinish(k, Answer(500, "book failed", <<>>))
     ELSE /\ dlvPc' = [dlvPc EXCEPT ![k] = "done"]
          /\ dlvResp' = [dlvResp EXCEPT ![k] =
               IF session.variant = "node" THEN "no capacity" ELSE "refunded-no-capacity"]
          /\ UNCHANGED <<callPc, callDate, callResp>>

\* /api/book has answered the delivery
DlvBooked(k) ==
  /\ dlvPc[k] = "book"
  /\ callPc[k] = "done"
  /\ dlvPc' = [dlvPc EXCEPT ![k] = "done"]
  /\ dlvResp' = [dlvResp EXCEPT ![k] =
       IF callResp[k].status = 200 THEN "booked"
       ELSE IF session.variant = "node" THEN "paid but booking failed"
       ELSE "paid-booking-failed"]
  /\ UNCHANGED <<bookingsCal, blackoutsCal, callPc, callDate, callSeen, callResp, session>>

\* what the handlers on the shared calendar leave alone
besidesSystem ==
  <<envOK, availabilityVars, bookVars, hookVars, pairVars, checkoutVars>>

\* the calendars before the requests arrive
CalendarsAtStart ==
  /\ bookingsCal \in {<<>>, <<BookingEntry(0)>>, <<BookingEntry(MaxDay)>>}
  /\ blackoutsCal \in {<<>>, <<BookingEntry(MaxDay)>>}

InitRace ==
  /\ envOK = TRUE
  /\ AvailabilityIdle
  /\ BookIdle
  /\ HookIdle
  /\ PairIdle
  /\ CheckoutIdle
  /\ CalendarsAtStart
  /\ callPc = [i \in Calls |-> "idle"]
  /\ callDate = [i \in Calls |-> 0]
  /\ callSeen = [i \in Calls |-> <<<<>>, <<>>>>]
  /\ callResp = [i \in Calls |-> NoResp]
  /\ session = [variant |-> "node", date |-> 0]
  /\ dlvPc = [k \in Deliveries |-> "idle"]
  /\ dlvResp = [k \in Deliveries |-> ""]

\* requests sent straight to /api/book
NextRace ==
  \/ \E i \in Calls :
       /\ callPc[i] = "idle"
       /\ UNCHANGED besidesSystem
       /\ UNCHANGED <<session, dlvPc, dlvResp>>
       /\ \E d \in Days, ok \in BOOLEAN : SysBookReceive(i, d, ok)
  \/ \E i \in Calls :
       /\ callPc[i] = "objects"
       /\ UNCHANGED besidesSystem
       /\ UNCHANGED <<session, dlvPc, dlvResp>>
       /\ \E ok \in BOOLEAN : SysBookFetch(i, ok)
  \/ \E i \in Calls :
       /\ callPc[i] = "create"
       /\ UNCHANGED besidesSystem
       /\ UNCHANGED <<session, dlvPc, dlvResp>>
       /\ \E ok \in BOOLEAN : SysBookCreate(i, ok)

SpecRace == InitRace /\ [][NextRace]_vars

InitRedeliver ==
  /\ envOK = TRUE
  /\ AvailabilityIdle
  /\ BookIdle
  /\ HookIdle
  /\ PairIdle
  /\ CheckoutIdle
  /\ CalendarsAtStart
  /\ callPc = [i \in Calls |-> "idle"]
  /\ callDate = [i \in Calls |-> 0]
  /\ callSeen = [i \in Calls |-> <<<<>>, <<>>>>]
  /\ callResp = [i \in Calls |-> NoResp]
  /\ session \in {[variant |-> v, date |-> d] : v \in HookVariants, d \in Days}
  /\ dlvPc = [k \in Deliveries |-> "idle"]
  /\ dlvResp = [k \in Deliveries |-> ""]

\* the processor delivers the event of one paid session, possibly twice
NextRedeliver ==
  \/ \E k \in Deliveries : DlvReceive(k) /\ UNCHANGED besidesSystem
  \/ \E k \in Deliveries :
       /\ dlvPc[k] = "recheck"
       /\ UNCHANGED besidesSystem
       /\ \E rev \in Revisions, threw \in BOOLEAN, ok \in BOOLEAN :
            DlvRecheck(k, rev, threw, ok)
  \/ \E k \in Deliveries :
       /\ callPc[k] = "objects"
       /\ UNCHANGED besidesSystem
       /\ UNCHANGED <<session, dlvPc, dlvResp>>
       /\ \E ok \in BOOLEAN : SysBookFetch(k, ok)
  \/ \E k \in Deliveries :
       /\ callPc[k] = "create"
       /\ UNCHANGED besidesSystem
       /\ UNCHANGED <<session, dlvPc, dlvResp>>
       /\ \E ok \in BOOLEAN : SysBookCreate(k, ok)
  \/ \E k \in Deliveries : DlvBooked(k) /\ UNCHANGED besidesSystem

SpecRedeliver == InitRedeliver /\ [][NextRedeliver]_vars
\* ------------------------------------------------------------- properties
\* the per-day loop ran: the request got past both fetches
Evaluated ==
  /\ pc = "done"
  /\ \/ resp.status = 200
     \/ resp.error = "availability crashed" /\ envOK /\ req.method = "GET"

Ok200 == pc = "done" /\ resp.status = 200

EndOrStart == IF req.end.k = "missing" THEN req.start ELSE req.end

\* the VEVENT blocks of an object, as the revision answering the request reads it
Embedded(obj) ==
  LET ics == IF req.rev = 1 THEN getICSFromObj(obj) ELSE getData2(obj)
  IN IF ics.kind = "text" /\ ics.wellFormed THEN ics.vevents ELSE <<>>

\* the event has a start and an end, and [start, end) meets [midnight of d, next midnight)
OnDay(ev, d) ==
  /\ ev.dtstart.form # "none"
  /\ toJSDate(ev.dtstart) < LocalMidnight(d + 1)
  /\ endOf(ev).t > LocalMidnight(d)

EntryOnDay(obj, d) == \E j \in 1..Len(Embedded(obj)) : OnDay(Embedded(obj)[j], d)

\* C1: every day record of a 200 answer has
\* available = (NOT blackout AND bookedCount <= 1 AND NOT shortRecording)
C1_RuleHolds ==
  Ok200 =>
    \A i \in 1..Len(resp.days) :
      resp.days[i].available =
        (~resp.days[i].blackout /\ resp.days[i].bookedCount <= 1
           /\ ~resp.days[i].shortRecording)

C1_Witness ==
  /\ Ok200
  /\ \E i, j \in 1..Len(resp.days) :
       /\ resp.days[i].bookedCount = 2 /\ ~resp.days[i].blackout
       /\ ~resp.days[i].shortRecording /\ ~resp.days[i].available
       /\ resp.days[j].bookedCount <= 1 /\ resp.days[j].available

\* C2: a 200 answer lists the days start, start+1, ..., end in that order,
\* end - start + 1 of them, and none when start is after end
C2_DayList ==
  Ok200 =>
    /\ Len(resp.days) =
         (IF EndOrStart.d >= req.start.d THEN EndOrStart.d - req.start.d + 1 ELSE 0)
    /\ \A i \in 1..Len(resp.days) : resp.days[i].date = req.start.d + i - 1

C2_Witness ==
  /\ Ok200
  /\ Len(resp.days) = MaxDay + 1
  /\ resp.days[1].bookedCount # resp.days[MaxDay + 1].bookedCount

\* C3: with one booking event that has a start s and an end e, a day d is
\* counted exactly when s < midnight(d+1) and e > midnight(d); the same for
\* one blackout event
C3_HalfOpenOverlap ==
  Ok200 =>
    /\ (Len(bookingObjs) = 1 /\ Len(Embedded(bookingObjs[1])) = 1) =>
         \A i \in 1..Len(resp.days) :
           LET ev == Embedded(bookingObjs[1])[1]
               d == resp.days[i].date
           IN ev.dtstart.form # "none" =>
                ((resp.days[i].bookedCount = 1) <=>
                   (toJSDate(ev.dtstart) < LocalMidnight(d + 1)
                      /\ endOf(ev).t > LocalMidnight(d)))
    /\ (Len(blackoutObjs) = 1 /\ Len(Embedded(blackoutObjs[1])) = 1) =>
         \A i \in 1..Len(resp.days) :
           LET ev == Embedded(blackoutObjs[1])[1]
               d == resp.days[i].date
           IN ev.dtstart.form # "none" =>
                (resp.days[i].blackout <=>
                   (toJSDate(ev.dtstart) < LocalMidnight(d + 1)
                      /\ endOf(ev).t > LocalMidnight(d)))

\* a timed event that ends exactly at the second day's midnight: counted on
\* the first day, not on the second
C3_Witness ==
  /\ Ok200
  /\ Len(resp.days) >= 2
  /\ Len(bookingObjs) = 1 /\ Len(Embedded(bookingObjs[1])) = 1
  /\ LET ev == Embedded(bookingObjs[1])[1]
     IN /\ ev.dtstart.form = "utc" /\ ev.dtend.form = "utc"
        /\ ev.dtend.v = LocalMidnight(resp.days[2].date)
        /\ resp.days[1].bookedCount = 1
        /\ resp.days[2].bookedCount = 0

\* C4: bookedCount of a day is the number of booking objects with at least
\* one VEVENT on that day, however many of its VEVENTs are on it
C4_CountsEntries ==
  Ok200 =>
    \A i \in 1..Len(resp.days) :
      resp.days[i].bookedCount =
        Cardinality({k \in 1..Len(bookingObjs) : EntryOnDay(bookingObjs[k], resp.days[i].date)})

C4_Witness ==
  /\ Ok200
  /\ \E i \in 1..Len(resp.days), k \in 1..Len(bookingObjs) :
       /\ resp.days[i].bookedCount = 1
       /\ Len(Embedded(bookingObjs[k])) >= 2
       /\ OnDay(Embedded(bookingObjs[k])[1], resp.days[i].date)
       /\ OnDay(Embedded(bookingObjs[k])[2], resp.days[i].date)

\* SUMMARY texts of the form "Recording Session (Nh)" with N < 4
ShortLabels == {Short3Label}

\* C5: shortRecording of a day is true exactly when some VEVENT of some
\* booking object is on that day and announces a session under four hours
C5_ShortRecording ==
  Ok200 =>
    \A i \in 1..Len(resp.days) :
      resp.days[i].shortRecording <=>
        \E k \in 1..Len(bookingObjs) :
          \E j \in 1..Len(Embedded(bookingObjs[k])) :
            /\ OnDay(Embedded(bookingObjs[k])[j], resp.days[i].date)
            /\ Embedded(bookingObjs[k])[j].summary \in ShortLabels

\* the short session is the second VEVENT on the day, after a plain one
C5_Witness ==
  /\ Ok200
  /\ \E i \in 1..Len(resp.days), k \in 1..Len(bookingObjs) :
       /\ resp.days[i].shortRecording
       /\ Len(Embedded(bookingObjs[k])) >= 2
       /\ OnDay(Embedded(bookingObjs[k])[1], resp.days[i].date)
       /\ Embedded(bookingObjs[k])[1].summary = PlainLabel
       /\ OnDay(Embedded(bookingObjs[k])[2], resp.days[i].date)
       /\ Embedded(bookingObjs[k])[2].summary = Short3Label

\* C6: blackout of a day is true exactly when some blackout object has a
\* VEVENT on that day, and a blackout day is never available
C6_Blackout ==
  Ok200 =>
    \A i \in 1..Len(resp.days) :
      /\ resp.days[i].blackout <=>
           \E k \in 1..Len(blackoutObjs) : EntryOnDay(blackoutObjs[k], resp.days[i].date)
      /\ resp.days[i].blackout => ~resp.days[i].available

C6_Witness ==
  /\ Ok200
  /\ \E i \in 1..Len(resp.days) :
       /\ resp.days[i].blackout
       /\ resp.days[i].bookedCount = 0
       /\ ~resp.days[i].available
\* the end C7 describes for an event: start + 1 day when an all-day event's
\* DTEND is missing or not after its DTSTART
endCoerced(ev) ==
  IF ev.dtstart.form = "date"
       /\ (ev.dtend.form = "none" \/ toJSDate(ev.dtend) <= toJSDate(ev.dtstart))
    THEN LocalMidnight(ev.dtstart.v + 1)
  ELSE endOf(ev).t

\* C7: every all-day VEVENT the handler compares has end > start, its end
\* being start + 1 day when DTEND is missing or not after DTSTART; so an
\* all-day booking is counted on its start day
C7_AllDayEndAfterStart ==
  Ok200 =>
    \A k \in 1..Len(bookingObjs) :
      \A j \in 1..Len(Embedded(bookingObjs[k])) :
        LET ev == Embedded(bookingObjs[k])[j]
        IN ev.dtstart.form = "date" =>
             \A i \in 1..Len(resp.days) :
               resp.days[i].date = ev.dtstart.v =>
                 /\ endOf(ev).t > toJSDate(ev.dtstart)
                 /\ endOf(ev).t = endCoerced(ev)
                 /\ resp.days[i].bookedCount >= 1

\* no field of the object holds a text that parses
Unusable(obj) ==
  /\ ~(obj.data.kind = "text" /\ obj.data.wellFormed)
  /\ ~(obj.calendarData.kind = "text" /\ obj.calendarData.wellFormed)
  /\ ~(obj.iCalString.kind = "text" /\ obj.iCalString.wellFormed)

Usable(obj) == ~Unusable(obj)

\* C8: the answer is the one the same request gets with every object whose
\* payload is absent, empty or unparsable left out of both collections
C8_UnusableEntriesIgnored ==
  Evaluated =>
    resp = evaluate(req.rev, req.start, req.end,
                    SelectSeq(bookingObjs, Usable), SelectSeq(blackoutObjs, Usable))

C8_Witness ==
  /\ Ok200
  /\ Len(resp.days) >= 1
  /\ resp.days[1].bookedCount = 1
  /\ resp.days[1].blackout
  /\ \E k \in 1..Len(bookingObjs) : Unusable(bookingObjs[k])
  /\ \E k \in 1..Len(blackoutObjs) : Unusable(blackoutObjs[k])

\* the payload with its VEVENTs that lack a DTSTART left out
WithoutMalformed(p) ==
  [p EXCEPT !.vevents = SelectSeq(p.vevents, LAMBDA ev : ev.dtstart.form # "none")]
DropMalformed(objs) ==
  [k \in 1..Len(objs) |->
     DavObj(WithoutMalformed(objs[k].data), WithoutMalformed(objs[k].calendarData),
            WithoutMalformed(objs[k].iCalString))]

\* C9: in both revisions a VEVENT without a usable start or end is skipped:
\* once both fetches resolved the request is answered 200 with the day list
\* its other events give
C9_MalformedEventSkipped ==
  Evaluated =>
    /\ resp.status = 200
    /\ resp = evaluate(req.rev, req.start, req.end,
                       DropMalformed(bookingObjs), DropMalformed(blackoutObjs))

\* C10: a request whose start day is after its end day is not answered 200
C10_ReversedRangeRejected ==
  (/\ pc = "done"
   /\ req.method = "GET"
   /\ req.start.k = "date" /\ req.end.k = "date"
   /\ req.start.d > req.end.d) => resp.status # 200

\* a step in which creating the client, listing the calendars or the pair of
\* fetches fails
SetupFails ==
  \/ CreateClient(FALSE)
  \/ \E cs \in CalendarLists : FetchCalendars(TRUE, cs)
  \/ FetchObjectsRejected

\* a step that answers 200
Answers200 == pc # "done" /\ pc' = "done" /\ resp'.status = 200

\* C14: a step in which the client, the calendar listing or a fetch fails
\* answers 500 with no day record, and every 200 answer is made in the step
\* where both collections arrive, from those two collections
C14_FailureAnswers500 ==
  [][/\ SetupFails =>
          (pc' = "done" /\ resp'.status = 500 /\ resp'.days = <<>>)
     /\ Answers200 =>
          /\ pc = "objects"
          /\ resp' = evaluate(req.rev, req.start, req.end, bookingObjs', blackoutObjs')]_vars

C14_Witness ==
  /\ pc = "done"
  /\ req.start.k = "date"
  /\ resp.status = 500
  /\ resp.error = "fetchCalendarObjects failed"

\* the booking collection holds such entries only
OnlyBookingEntries ==
  \A k \in 1..Len(bookingObjs) : \E d \in Days : bookingObjs[k] = BookingEntry(d)

EntriesOn(d) == Cardinality({k \in 1..Len(bookingObjs) : bookingObjs[k] = BookingEntry(d)})

\* C17: with all-day booking entries only and no blackout, each day's
\* bookedCount is the number of entries dated that day (an entry for D adds
\* nothing to D+1 or D-1) and the day is available exactly when that number
\* is at most 1
C17_AllDayEntryOnItsDayOnly ==
  (Ok200 /\ OnlyBookingEntries /\ blackoutObjs = <<>>) =>
    \A i \in 1..Len(resp.days) :
      /\ resp.days[i].bookedCount = EntriesOn(resp.days[i].date)
      /\ resp.days[i].available = (EntriesOn(resp.days[i].date) <= 1)

\* two entries on the first day of a two-day range
C17_Witness ==
  /\ Ok200 /\ OnlyBookingEntries /\ blackoutObjs = <<>>
  /\ Len(resp.days) = 2
  /\ EntriesOn(resp.days[1].date) = 2
  /\ resp.days[1].bookedCount = 2 /\ ~resp.days[1].available
  /\ resp.days[2].bookedCount = 0 /\ resp.days[2].available

\* the answer the same request gets with an empty blackout collection
WithoutBlackouts == evaluate(req.rev, req.start, req.end, bookingObjs, <<>>)

\* C20: shortRecording and bookedCount of every day are those the same
\* bookings give with no blackout at all; a blackout event announcing a short
\* session sets blackout and nothing else
C20_ShortReadsBookingsOnly ==
  Ok200 =>
    /\ WithoutBlackouts.status = 200
    /\ Len(WithoutBlackouts.days) = Len(resp.days)
    /\ \A i \in 1..Len(resp.days) :
         /\ resp.days[i].shortRecording = WithoutBlackouts.days[i].shortRecording
         /\ resp.days[i].bookedCount = WithoutBlackouts.days[i].bookedCount

\* a day with one plain booking and a blackout labelled as a short session
C20_Witness ==
  /\ Ok200
  /\ \E i \in 1..Len(resp.days), k \in 1..Len(blackoutObjs) :
       /\ \E j \in 1..Len(Embedded(blackoutObjs[k])) :
            /\ OnDay(Embedded(blackoutObjs[k])[j], resp.days[i].date)
            /\ Embedded(blackoutObjs[k])[j].summary = Short3Label
       /\ resp.days[i].blackout
       /\ ~resp.days[i].shortRecording
       /\ resp.days[i].bookedCount = 1

\* C18: a booking object whose text the parser rejects, but which holds an
\* event block with a start, is counted on every day that event is on
C18_FallbackExtracts ==
  Ok200 =>
    \A k \in 1..Len(bookingObjs), i \in 1..Len(resp.days) :
      LET ics == icsOf(req.rev, bookingObjs[k])
      IN (/\ ics.kind = "text" /\ ~ics.wellFormed
          /\ \E j \in 1..Len(ics.vevents) : OnDay(ics.vevents[j], resp.days[i].date))
           => resp.days[i].bookedCount >= 1

\* the availability answer for the day /api/book was asked for, computed on
\* the collections /api/book fetched
RuleOnBookData(rev) == evaluate(rev, bookReq.date, bookReq.date, bookObjs[1], bookObjs[2])

BookCalled == \E i \in 1..Len(hookCalls) : hookCalls[i] = "book"
\* a refund of the session's payment has been requested from Stripe
RefundIssued == \E i \in 1..Len(hookCalls) : hookCalls[i] = "refund"

\* C12: the webhook calls /api/book only after its re-check returned a day
\* record with available = true; a day closed by a short session is not booked
C12_HookBooksOnlyAvailable ==
  BookCalled => (hookDay.def /\ hookDay.available)

\* C13: a delivery for a session that carries a payment, whose re-check
\* returned the day as not available, is answered only after a refund has
\* been requested
C13_RefundWhenUnavailable ==
  (hookPc = "done" /\ hookReq.paymentIntent /\ hookDay.def /\ ~hookDay.available)
    => RefundIssued

\* the end day of invocation r's request
EndOf(r) == IF reqOf[r].end.k = "missing" THEN reqOf[r].start ELSE reqOf[r].end

\* invocation r answered 200
Done200(r) == pcOf[r] = "done" /\ respOf[r].status = 200

\* C15: the two fetches are in flight together, a 200 answer is given only
\* when both have resolved, and it is the day list of the bookings result and
\* the blackouts result whichever arrived first
C15_BothFetchesThenEvaluate ==
  \A r \in Requests :
    /\ (inFlight[r].b.state = "none") = (inFlight[r].x.state = "none")
    /\ (pcOf[r] = "objects" /\ arrived[r] = <<>>) =>
         (inFlight[r].b.state = "pending" /\ inFlight[r].x.state = "pending")
    /\ Done200(r) =>
         /\ inFlight[r].b.state = "resolved" /\ inFlight[r].x.state = "resolved"
         /\ Len(arrived[r]) = 2
         /\ respOf[r].days =
              evaluate(reqOf[r].rev, reqOf[r].start, reqOf[r].end,
                       inFlight[r].b.value, inFlight[r].x.value).days

\* the blackouts arrived first, and the two results differ
C15_Witness ==
  \E r \in Requests :
    /\ Done200(r)
    /\ arrived[r] = <<"x", "b">>
    /\ inFlight[r].x.value # <<>>
    /\ inFlight[r].b.value # inFlight[r].x.value
    /\ Len(respOf[r].days) = MaxDay + 1
    /\ respOf[r].days[1].bookedCount = 1
    /\ respOf[r].days[MaxDay + 1].blackout

\* C16: whatever the other invocation does, each invocation works on the
\* days of its own request: its locals and the range of its fetches are those
\* of its request, and its 200 answer is the one its own request and its own
\* two results give
C16_RequestsIsolated ==
  \A r \in Requests :
    /\ pcOf[r] \in {"client", "calendars", "objects"} =>
         localsOf[r] = [startD |-> reqOf[r].start.d, endD |-> EndOf(r).d]
    /\ inFlight[r].b.state # "none" =>
         /\ inFlight[r].b.timeRange = timeRange(reqOf[r].start.d, EndOf(r).d)
         /\ inFlight[r].x.timeRange = timeRange(reqOf[r].start.d, EndOf(r).d)
    /\ Done200(r) =>
         respOf[r] = evaluate(reqOf[r].rev, reqOf[r].start, reqOf[r].end,
                              inFlight[r].b.value, inFlight[r].x.value)

\* both invocations are between their awaits, on different ranges, and one
\* of them has answered
C16_Witness ==
  /\ Done200(1)
  /\ Len(respOf[1].days) = MaxDay + 1
  /\ pcOf[2] = "objects"
  /\ Len(arrived[2]) = 1
  /\ reqOf[2].start # reqOf[1].start

\* C19: the range handed to both fetches starts a day or more before the
\* start of the first day asked for and ends a day or more after the end of
\* the last
C19_PaddedTimeRange ==
  \A r \in Requests :
    inFlight[r].b.state # "none" =>
      /\ inFlight[r].b.timeRange.start <= LocalMidnight(reqOf[r].start.d - 1)
      /\ inFlight[r].b.timeRange.end >= LocalMidnight(EndOf(r).d + 2)
      /\ inFlight[r].x.timeRange = inFlight[r].b.timeRange

\* the pre-write check of /api/book has read a blackout entry or two or more
\* booking entries
BookCheckRefuses ==
  /\ bookPc \in {"create", "done"}
  /\ Len(bookObjs[2]) > 0 \/ Len(bookObjs[1]) >= 2

\* C21: when the pre-write check finds a blackout entry or two or more
\* booking entries, the handler answers 409 'date not available' and writes
\* nothing to the Bookings calendar
C21_RefusedWritesNothing ==
  /\ BookCheckRefuses =>
       /\ bookPc = "done"
       /\ bookResp = Answer(409, "date not available", <<>>)
       /\ bookCreated = <<>>
  /\ bookResp.status = 409 => (BookCheckRefuses /\ bookCreated = <<>>)

\* refused for a blackout alone, with no booking on the day
C21_Witness ==
  /\ bookPc = "done"
  /\ bookResp.status = 409
  /\ Len(bookObjs[2]) > 0
  /\ Len(bookObjs[1]) = 0

\* C22: when the re-checked day record carries the 'available' flag, a
\* payment session is asked for only if that flag is true
C22_SessionFollowsFlag ==
  (checkoutCalls # <<>> /\ checkoutDay.hasFlag) => checkoutDay.available

\* a POST to the configured webhook whose signature is missing or wrong
BadSignature ==
  /\ hookPc # "idle"
  /\ hookReq.method = "POST"
  /\ hookReq.configured
  /\ ~hookReq.sigOk

\* C23: the re-check and the booking call come only after the signature has
\* been verified; a delivery with a missing or wrong signature is answered
\* 400 and sends no availability request, no booking and no refund
C23_NothingBeforeVerification ==
  /\ BadSignature =>
       (hookPc = "done" /\ hookResp.status = 400 /\ hookCalls = <<>>)
  /\ hookCalls # <<>> =>
       (hookReq.method = "POST" /\ hookReq.configured /\ hookReq.sigOk)

\* a completed-checkout delivery with a date and a bad signature was refused
C23_Witness ==
  /\ BadSignature
  /\ hookPc = "done"
  /\ hookResp.status = 400
  /\ hookReq.type = "checkout.session.completed"
  /\ hookReq.date.k = "date"
  /\ hookReq.apiBase

\* the Node handler answered 'no capacity'
NodeNoCapacity ==
  /\ hookReq.variant = "node"
  /\ hookPc = "done"
  /\ hookResp.text = "no capacity"

\* C24: in the Node handler a re-check that fails (the request throws or the
\* body is not JSON) does not stop the booking call; 'no capacity' is answered,
\* with no booking call, only when the re-check succeeded and gave no day, a
\* blackout or bookedCount >= 2
C24_FailedRecheckStillBooks ==
  /\ (hookReq.variant = "node" /\ hookCaught) =>
       (hookPc \in {"book", "done"} /\ BookCalled /\ hookResp.text # "no capacity")
  /\ NodeNoCapacity =>
       /\ ~hookCaught
       /\ ~BookCalled
       /\ ~hookDay.def \/ hookDay.blackout \/ hookDay.bookedCount >= 2

\* the re-check failed and the booking call was answered
C24_Witness ==
  /\ hookReq.variant = "node"
  /\ hookCaught
  /\ hookPc = "done"
  /\ hookResp.text = "booked"

\* a query of the configured service that names no start, or whose start or
\* end is not a date
BadQuery ==
  /\ pc # "idle"
  /\ envOK
  /\ req.method # "OPTIONS"
  /\ \/ req.start.k = "missing"
     \/ req.start.k = "invalid"
     \/ req.end.k = "invalid"

\* C25: a query with no start, or with a start or end that is not a date, is
\* answered 400 in the handler's first turn, before the client is created and
\* before anything is fetched; a query with no end gets the single record of
\* its start day
C25_BadQueryAnswers400 ==
  /\ BadQuery =>
       /\ pc = "done"
       /\ resp.status = 400
       /\ resp.days = <<>>
       /\ bookingObjs = <<>> /\ blackoutObjs = <<>>
  /\ (Ok200 /\ req.end.k = "missing") =>
       /\ Len(resp.days) = 1
       /\ resp.days[1].date = req.start.d

\* a query with a start and an unparsable end was refused
C25_Witness ==
  /\ BadQuery
  /\ resp.status = 400
  /\ req.start.k = "date"
  /\ req.end.k = "invalid"

\* the entries of the Bookings calendar on day d
EntriesOnDay(calendar, d) == Len(fetchCalendarObjects(calendar, timeRange(d, d)))

RECURSIVE without(_, _)
without(calendar, e) ==
  IF calendar = <<>> THEN <<>>
  ELSE IF Head(calendar) = e THEN Tail(calendar)
  ELSE <<Head(calendar)>> \o without(Tail(calendar), e)

\* the day record of d read from the calendars as they are, and as they were
\* without the entry written for day D
recordNow(rev, d) == availabilityNow(rev, d).days[1]
recordBefore(rev, D, d) ==
  availabilityOf(rev, without(bookingsCal, BookingEntry(D)), blackoutsCal, d).days[1]

\* C27: when /api/book has answered 200 for date D, the availability handler
\* counts the new entry on D and on no other day: bookedCount of D is exactly
\* one higher than without the entry, and the records of D-1 and D+1 are
\* what they were without it
C27_BookedEntryReadBack ==
  \A i \in Calls : callResp[i].status = 200 =>
    \A rev \in Revisions :
      /\ recordNow(rev, callDate[i]).bookedCount
           = recordBefore(rev, callDate[i], callDate[i]).bookedCount + 1
      /\ recordNow(rev, callDate[i] - 1) = recordBefore(rev, callDate[i], callDate[i] - 1)
      /\ recordNow(rev, callDate[i] + 1) = recordBefore(rev, callDate[i], callDate[i] + 1)

\* an entry was created next to a day that already had one
C27_Witness ==
  \E i \in Calls :
    /\ callResp[i].status = 200
    /\ EntriesOnDay(bookingsCal, callDate[i]) = 1
    /\ \E d \in {callDate[i] - 1, callDate[i] + 1} : EntriesOnDay(bookingsCal, d) = 1

\* the entries written for the paid session
SessionEntries == {k \in Deliveries : callResp[k].status = 200}

AddedEntries == SmallObjs

\* no day of the list after is available where the list before was not, and
\* no bookedCount is lower (an answer without a day list gives no verdict)
noBetter(before, after) ==
  after.status = 200 =>
    /\ Len(after.days) = Len(before.days)
    /\ \A i \in 1..Len(before.days) :
         /\ after.days[i].available => before.days[i].available
         /\ after.days[i].bookedCount >= before.days[i].bookedCount
         /\ before.days[i].blackout => after.days[i].blackout
         /\ before.days[i].shortRecording => after.days[i].shortRecording

\* C29: adding an entry to the bookings or to the blackouts collection never
\* turns a day from unavailable to available and never lowers a bookedCount
C29_Monotone ==
  Ok200 =>
    \A o \in AddedEntries :
      /\ noBetter(resp, evaluate(req.rev, req.start, req.end, Append(bookingObjs, o), blackoutObjs))
      /\ noBetter(resp, evaluate(req.rev, req.start, req.end, <<o>> \o bookingObjs, blackoutObjs))
      /\ noBetter(resp, evaluate(req.rev, req.start, req.end, bookingObjs, Append(blackoutObjs, o)))
      /\ noBetter(resp, evaluate(req.rev, req.start, req.end, bookingObjs, <<o>> \o blackoutObjs))

\* a day with one booking and one blackout: one more of either changes a
\* count and leaves the day unavailable
C29_Witness ==
  /\ Ok200
  /\ Len(resp.days) = MaxDay + 1
  /\ resp.days[1].bookedCount = 1
  /\ resp.days[1].blackout
  /\ resp.days[MaxDay + 1].available
  /\ evaluate(req.rev, req.start, req.end, Append(bookingObjs, BookingEntry(MaxDay)),
              blackoutObjs).days[MaxDay + 1].bookedCount = 1

\* every entry of the collection parses and each of its events has a start
\* and an end
AllParse(objects) ==
  \A i \in 1..Len(objects) :
    /\ Truthy(objects[i].data)
    /\ objects[i].data.wellFormed
    /\ \A j \in 1..Len(objects[i].data.vevents) :
         /\ objects[i].data.vevents[j].dtstart.form # "none"
         /\ objects[i].data.vevents[j].dtend.form # "none"

\* C30: on collections whose entries all parse and whose events all have a
\* start and an end, the single-pass handler of part_001 and the two
\* revisions of availability.js return the same record for every day
C30_RevisionsAgree ==
  (Ok200 /\ AllParse(bookingObjs) /\ AllParse(blackoutObjs)) =>
    \A rev \in Revisions :
      resp = evaluate(rev, req.start, req.end, bookingObjs, blackoutObjs)
====
